---- MODULE Spec2Model ----
(***************************************************************************)
(* Link-Content-Scraper: the scrape orchestration engine of src/main.py.   *)
(* The model covers the process-wide rate limiter, the retrying fetcher    *)
(* (get_markdown_content), the batch crawler (scrape_url), the progress    *)
(* records and the archive builder (create_zip_file).                      *)
(*                                                                         *)
(* asyncio runs one coroutine at a time and switches only at an await that *)
(* suspends, so every action below is the code between two suspension      *)
(* points.  Text (URLs, page content, exception messages) is a sequence of *)
(* one-character strings, so that the string functions of the source are   *)
(* computed, not assumed.                                                  *)
(***************************************************************************)
EXTENDS Integers, Sequences, FiniteSets, TLC

(***************************************************************************)
(* Settings (src/main.py, lines 24-30 and 448)                             *)
(***************************************************************************)
RATE_LIMIT == 15
RATE_PERIOD == 60
MAX_RETRIES == 3
RETRY_DELAY == 5
PDF_TIMEOUT == 60
DEFAULT_TIMEOUT == 30
MIN_CONTENT_LEN == 50
MIN_LINE_BREAKS == 3

(***************************************************************************)
(* Bounds of the model                                                     *)
(***************************************************************************)
\* batch_size is 10 in the source (line 448); the model runs smaller batches
\* so that a crawl with several batches stays checkable.
batch_size == 2
\* crawls (POST /api/scrape requests) handled by the process
NCrawls == 2
\* the clock advances in steps of TickLen seconds, up to MaxTime
TickLen == 30
MaxTime == 60

(***************************************************************************)
(* Text                                                                    *)
(***************************************************************************)
NL == "\n"
Whitespace == {" ", NL, "\t", "\r"}
Digits == {"0", "1", "2", "3", "4", "5", "6", "7", "8", "9"}

\* str.lower(), one character
LowerChar(ch) ==
  CASE ch = "A" -> "a" [] ch = "B" -> "b" [] ch = "C" -> "c" [] ch = "D" -> "d"
    [] ch = "E" -> "e" [] ch = "F" -> "f" [] ch = "G" -> "g" [] ch = "H" -> "h"
    [] ch = "I" -> "i" [] ch = "J" -> "j" [] ch = "K" -> "k" [] ch = "L" -> "l"
    [] ch = "M" -> "m" [] ch = "N" -> "n" [] ch = "O" -> "o" [] ch = "P" -> "p"
    [] ch = "Q" -> "q" [] ch = "R" -> "r" [] ch = "S" -> "s" [] ch = "T" -> "t"
    [] ch = "U" -> "u" [] ch = "V" -> "v" [] ch = "W" -> "w" [] ch = "X" -> "x"
    [] ch = "Y" -> "y" [] ch = "Z" -> "z" [] OTHER -> ch

RECURSIVE Lower(_)
Lower(s) == IF s = <<>> THEN <<>> ELSE <<LowerChar(Head(s))>> \o Lower(Tail(s))

\* str.startswith(p)
StartsWith(s, p) == Len(s) >= Len(p) /\ SubSeq(s, 1, Len(p)) = p

\* str.endswith(p); also re.search(p + '$', s) for a literal p
EndsWith(s, p) == Len(s) >= Len(p) /\ SubSeq(s, Len(s) - Len(p) + 1, Len(s)) = p

\* p occurs in s at position i
MatchAt(s, p, i) == i + Len(p) - 1 <= Len(s) /\ SubSeq(s, i, i + Len(p) - 1) = p

\* `p in s`; also re.search(p, s) for a literal p
Contains(s, p) == \E i \in 1..(Len(s) + 1) : MatchAt(s, p, i)

\* str.count(ch)
Count(s, ch) == Cardinality({i \in 1..Len(s) : s[i] = ch})

\* the first position from i on, and the last position up to i, that holds no
\* whitespace (Len(s) + 1 and 0 when there is none)
RECURSIVE FirstKept(_, _)
FirstKept(s, i) ==
  IF i > Len(s) \/ s[i] \notin Whitespace THEN i ELSE FirstKept(s, i + 1)

RECURSIVE LastKept(_, _)
LastKept(s, i) ==
  IF i < 1 \/ s[i] \notin Whitespace THEN i ELSE LastKept(s, i - 1)

\* str.strip()
Strip(s) ==
  LET lo == FirstKept(s, 1)
      hi == LastKept(s, Len(s))
  IN  IF lo > hi THEN <<>> ELSE SubSeq(s, lo, hi)

\* str.split(ch): the pieces of s between the occurrences of ch
Split(s, ch) ==
  LET IsCut(i) == s[i] = ch
      cuts == SelectSeq([i \in 1..Len(s) |-> i], IsCut)
      pieces == Len(cuts) + 1
  IN  [j \in 1..pieces |->
         SubSeq(s, IF j = 1 THEN 1 ELSE cuts[j - 1] + 1,
                   IF j = pieces THEN Len(s) ELSE cuts[j] - 1)]

\* str(n) for n >= 0
RECURSIVE IntToStr(_)
IntToStr(n) ==
  LET d == <<"0", "1", "2", "3", "4", "5", "6", "7", "8", "9">>
  IN  IF n < 10 THEN <<d[n + 1]>> ELSE IntToStr(n \div 10) \o <<d[(n % 10) + 1]>>

(***************************************************************************)
(* should_skip_url (lines 121-136)                                         *)
(***************************************************************************)
PAT_PNG ==
  <<".", "p", "n", "g">>
PAT_JPG ==
  <<".", "j", "p", "g">>
PAT_JPEG ==
  <<".", "j", "p", "e", "g">>
PAT_GIF ==
  <<".", "g", "i", "f">>
PAT_WEBP ==
  <<".", "w", "e", "b", "p">>
PAT_TWITTER ==
  <<"t", "w", "i", "t", "t", "e", "r", ".", "c", "o", "m">>
PAT_X ==
  <<"x", ".", "c", "o", "m">>
PAT_LINKEDIN ==
  <<"l", "i", "n", "k", "e", "d", "i", "n", ".", "c", "o", "m">>
PAT_FACEBOOK ==
  <<"f", "a", "c", "e", "b", "o", "o", "k", ".", "c", "o", "m">>
PAT_INSTAGRAM ==
  <<"i", "n", "s", "t", "a", "g", "r", "a", "m", ".", "c", "o", "m">>
PAT_YOUTUBE ==
  <<"y", "o", "u", "t", "u", "b", "e", ".", "c", "o", "m">>
PAT_SUBSTACKCDN ==
  <<"s", "u", "b", "s", "t", "a", "c", "k", "c", "d", "n", ".", "c", "o", "m">>

\* the patterns anchored with $ and the patterns searched anywhere
SkipSuffixes == {PAT_PNG, PAT_JPG, PAT_JPEG, PAT_GIF, PAT_WEBP}
SkipDomains ==
  {PAT_TWITTER, PAT_X, PAT_LINKEDIN, PAT_FACEBOOK, PAT_INSTAGRAM, PAT_YOUTUBE,
   PAT_SUBSTACKCDN}

should_skip_url(url) ==
  LET u == Lower(url)
  IN  \/ \E p \in SkipSuffixes : EndsWith(u, p)
      \/ \E p \in SkipDomains : Contains(u, p)

(***************************************************************************)
(* transform_arxiv_url (lines 138-160) and is_pdf_url (lines 162-164)      *)
(***************************************************************************)
ARXIV_ABS ==
  <<"a", "r", "x", "i", "v", ".", "o", "r", "g", "/", "a", "b", "s", "/">>
ARXIV_PDF ==
  <<"a", "r", "x", "i", "v", ".", "o", "r", "g", "/", "p", "d", "f", "/">>
ARXIV_HTML ==
  <<"a", "r", "x", "i", "v", ".", "o", "r", "g", "/", "h", "t", "m", "l", "/">>
ARXIV_PDF_PATH ==
  <<"a", "r", "x", "i", "v", ".", "o", "r", "g", "/", "p", "d", "f">>
ARXIV_CANON ==
  <<"h", "t", "t", "p", "s", ":", "/", "/", "a", "r", "x", "i", "v", ".", "o", "r",
    "g", "/", "p", "d", "f", "/">>
DOT_PDF ==
  <<".", "p", "d", "f">>

\* the length of the run of digits of s that starts at position i (\d+ is greedy)
RECURSIVE DigitRun(_, _)
DigitRun(s, i) == IF i <= Len(s) /\ s[i] \in Digits THEN 1 + DigitRun(s, i + 1) ELSE 0

\* (\d+\.\d+)(v\d+)? matched at position j of s, then `suffix`: the groups, or
\* ok = FALSE.  No shorter repetition can match where the greedy one fails,
\* because the character after a run of digits is not a digit.
ArxivGroups(s, j, suffix) ==
  LET n1 == DigitRun(s, j)
      n2 == IF n1 >= 1 /\ j + n1 <= Len(s) /\ s[j + n1] = "." THEN DigitRun(s, j + n1 + 1) ELSE 0
      e == j + n1 + 1 + n2
      nv == IF n2 >= 1 /\ e <= Len(s) /\ s[e] = "v" THEN DigitRun(s, e + 1) ELSE 0
      e2 == IF nv >= 1 THEN e + 1 + nv ELSE e
  IN  [ok |-> n1 >= 1 /\ n2 >= 1 /\ MatchAt(s, suffix, e2),
       paper_id |-> IF n2 >= 1 THEN SubSeq(s, j, e - 1) ELSE <<>>,
       version |-> IF nv >= 1 THEN SubSeq(s, e, e2 - 1) ELSE <<>>]

\* re.search(prefix (\d+\.\d+)(v\d+)? suffix, url): the leftmost match
ArxivSearch(url, prefix, suffix) ==
  LET hits == {i \in 1..Len(url) :
                 MatchAt(url, prefix, i) /\ ArxivGroups(url, i + Len(prefix), suffix).ok}
  IN  IF hits = {} THEN [ok |-> FALSE, paper_id |-> <<>>, version |-> <<>>]
      ELSE ArxivGroups(url, (CHOOSE i \in hits : \A k \in hits : i <= k) + Len(prefix), suffix)

\* a normalisation to the abstract page instead of the PDF
ARXIV_CANON_ABS ==
  <<"h", "t", "t", "p", "s", ":", "/", "/", "a", "r", "x", "i", "v", ".", "o", "r",
    "g", "/", "a", "b", "s", "/">>

transform_to_abstract(url) ==
  LET abs == ArxivSearch(url, ARXIV_ABS, <<>>)
      pdf == ArxivSearch(url, ARXIV_PDF, DOT_PDF)
      html == ArxivSearch(url, ARXIV_HTML, <<>>)
      m == IF abs.ok THEN abs ELSE IF pdf.ok THEN pdf ELSE html
  IN  IF m.ok THEN ARXIV_CANON_ABS \o m.paper_id \o m.version ELSE url

\* lines 138-160
transform_arxiv_url(url) ==
  LET abs == ArxivSearch(url, ARXIV_ABS, <<>>)
      pdf == ArxivSearch(url, ARXIV_PDF, DOT_PDF)
      html == ArxivSearch(url, ARXIV_HTML, <<>>)
      m == IF abs.ok THEN abs ELSE IF pdf.ok THEN pdf ELSE html
  IN  IF m.ok THEN ARXIV_CANON \o m.paper_id \o m.version \o DOT_PDF ELSE url

is_pdf_url(url) == EndsWith(Lower(url), DOT_PDF) \/ Contains(Lower(url), ARXIV_PDF_PATH)

(***************************************************************************)
(* Content validation: at fetch time (lines 261-272) and before archiving  *)
(* (lines 347-350)                                                         *)
(***************************************************************************)
META_ORIGINAL_URL ==
  <<"#", " ", "O", "r", "i", "g", "i", "n", "a", "l", " ", "U", "R", "L", ":">>
META_TITLE ==
  <<"T", "i", "t", "l", "e", ":">>
META_URL_SOURCE ==
  <<"U", "R", "L", " ", "S", "o", "u", "r", "c", "e", ":">>
META_MARKDOWN_CONTENT ==
  <<"M", "a", "r", "k", "d", "o", "w", "n", " ", "C", "o", "n", "t", "e", "n", "t", ":">>

MetadataPrefixes == {META_ORIGINAL_URL, META_TITLE, META_URL_SOURCE, META_MARKDOWN_CONTENT}

\* all(line.startswith(prefixes) for line in lines if line.strip())
OnlyMetadata(content) ==
  LET lines == Split(content, NL)
  IN  \A i \in 1..Len(lines) :
        Strip(lines[i]) # <<>> => \E p \in MetadataPrefixes : StartsWith(lines[i], p)

\* len(content) < 50 or content.count('\n') < 3, line 265
TooShort(content) == Len(content) < MIN_CONTENT_LEN \/ Count(content, NL) < MIN_LINE_BREAKS

MSG_TOO_SHORT ==
  <<"R", "e", "t", "r", "i", "e", "v", "e", "d", " ", "c", "o", "n", "t", "e", "n",
    "t", " ", "t", "o", "o", " ", "s", "h", "o", "r", "t", " ", "o", "r", " ", "e",
    "m", "p", "t", "y">>
MSG_ONLY_METADATA ==
  <<"R", "e", "t", "r", "i", "e", "v", "e", "d", " ", "c", "o", "n", "t", "e", "n",
    "t", " ", "c", "o", "n", "t", "a", "i", "n", "s", " ", "o", "n", "l", "y", " ",
    "m", "e", "t", "a", "d", "a", "t", "a">>
MSG_FAILED ==
  <<"F", "a", "i", "l", "e", "d", " ", "t", "o", " ", "g", "e", "t", " ", "c", "o",
    "n", "t", "e", "n", "t", ":", " ">>
MSG_TIMEOUT ==
  <<"t", "i", "m", "e", "d", " ", "o", "u", "t">>
SUB_429 ==
  <<"4", "2", "9">>
SUB_TOO_SHORT ==
  <<"t", "o", "o", " ", "s", "h", "o", "r", "t">>
SUB_ONLY_METADATA ==
  <<"o", "n", "l", "y", " ", "m", "e", "t", "a", "d", "a", "t", "a">>

\* the exception the 200 branch raises for `content` (already stripped), or <<>>
FetchCheck(content) ==
  IF TooShort(content) THEN MSG_TOO_SHORT
  ELSE IF OnlyMetadata(content) THEN MSG_ONLY_METADATA
  ELSE <<>>

\* faulty variant of ArchiveRejects: the metadata test is left out
ArchiveRejectsShortOnly(content) ==
  \/ Len(Strip(content)) < MIN_CONTENT_LEN
  \/ Count(content, NL) < MIN_LINE_BREAKS

\* the condition of line 348-350: the archive builder skips `content`
ArchiveRejects(content) ==
  \/ Len(Strip(content)) < MIN_CONTENT_LEN
  \/ Count(content, NL) < MIN_LINE_BREAKS
  \/ OnlyMetadata(content)

\* faulty variant of Retryable: every exception is retried
RetryAnything(msg) == TRUE

\* the test of line 296 on str(e)
Retryable(msg) ==
  Contains(msg, SUB_429) \/ Contains(msg, SUB_TOO_SHORT) \/ Contains(msg, SUB_ONLY_METADATA)

(***************************************************************************)
(* The environment: the URLs requested, the pages behind them and what the *)
(* extraction service can answer                                           *)
(***************************************************************************)
HTTP ==
  <<"h", "t", "t", "p">>
U_SEED ==
  <<"h", "t", "t", "p", ":", "/", "/", "e", "x", ".", "o", "r", "g", "/">>
U_ARXIV ==
  <<"h", "t", "t", "p", ":", "/", "/", "a", "r", "x", "i", "v", ".", "o", "r", "g",
    "/", "a", "b", "s", "/", "1", ".", "2", "v", "3">>
U_SKIP ==
  <<"h", "t", "t", "p", "s", ":", "/", "/", "X", ".", "c", "o", "m", "/", "u">>
U_A ==
  <<"h", "t", "t", "p", ":", "/", "/", "e", "x", ".", "o", "r", "g", "/", "a">>
U_B ==
  <<"h", "t", "t", "p", ":", "/", "/", "e", "x", ".", "o", "r", "g", "/", "b">>
U_C ==
  <<"h", "t", "t", "p", ":", "/", "/", "e", "x", ".", "o", "r", "g", "/", "c">>
U_IMG ==
  <<"h", "t", "t", "p", ":", "/", "/", "e", "x", ".", "o", "r", "g", "/", "i", ".",
    "P", "N", "G">>
U_REL ==
  <<"/", "a", "b", "o", "u", "t">>
U_HTTPREL ==
  <<"h", "t", "t", "p", "-", "f", "a", "q", ".", "h", "t", "m", "l">>

T_OK ==
  <<"#", " ", "D", "o", "c", " ", "A", NL, NL, "a", "l", "p", "h", "a", " ", "a", "l",
    "p", "h", "a", " ", "a", "l", "p", "h", "a", " ", "a", "l", "p", "h", "a", NL, "b",
    "e", "t", "a", " ", "b", "e", "t", "a", " ", "b", "e", "t", "a", " ", "b", "e",
    "t", "a", NL, "e", "n", "d", ".">>
T_PAD ==
  <<NL, " ", "#", " ", "D", "o", "c", " ", "B", NL, NL, "g", "a", "m", "m", "a", " ",
    "g", "a", "m", "m", "a", " ", "g", "a", "m", "m", "a", " ", "g", "a", "m", "m",
    "a", NL, "d", "e", "l", "t", "a", " ", "d", "e", "l", "t", "a", " ", "d", "e", "l",
    "t", "a", " ", "d", "e", "l", "t", "a", NL, " ", NL>>
T_EDGE ==
  <<"#", "#", " ", "E", "d", "g", "e", NL, "e", "e", "e", "e", "e", "e", "e", "e", "e",
    "e", "e", "e", "e", "e", "e", "e", "e", "e", "e", "e", NL, "f", "f", "f", "f", "f",
    "f", "f", "f", "f", "f", "f", "f", "f", "f", "f", "f", "f", "f", "f", NL, "g">>
T_49 ==
  <<"#", "#", " ", "E", "d", "g", "e", NL, "e", "e", "e", "e", "e", "e", "e", "e", "e",
    "e", "e", "e", "e", "e", "e", "e", "e", "e", "e", "e", NL, "f", "f", "f", "f", "f",
    "f", "f", "f", "f", "f", "f", "f", "f", "f", "f", "f", "f", "f", NL, "g">>
T_SHORT ==
  <<"t", "i", "n", "y", NL, NL, NL, "x">>
T_FLAT ==
  <<"o", "n", "e", " ", "l", "o", "n", "g", " ", "l", "i", "n", "e", " ", "o", "f",
    " ", "t", "e", "x", "t", " ", "w", "i", "t", "h", "o", "u", "t", " ", "m", "a",
    "n", "y", " ", "b", "r", "e", "a", "k", "s", " ", "a", "t", " ", "a", "l", "l", NL,
    "s", "e", "c", "o", "n", "d", NL, "t", "h", "i", "r", "d">>
T_META ==
  <<"T", "i", "t", "l", "e", ":", " ", "t", NL, "U", "R", "L", " ", "S", "o", "u", "r",
    "c", "e", ":", " ", "h", "t", "t", "p", ":", "/", "/", "e", "x", ".", "o", "r",
    "g", "/", "a", NL, NL, "M", "a", "r", "k", "d", "o", "w", "n", " ", "C", "o", "n",
    "t", "e", "n", "t", ":", NL, "#", " ", "O", "r", "i", "g", "i", "n", "a", "l", " ",
    "U", "R", "L", ":", " ", "u">>
T_METAPAD ==
  <<NL, NL, "T", "i", "t", "l", "e", ":", " ", "s", "o", "m", "e", " ", "t", "i", "t",
    "l", "e", NL, "U", "R", "L", " ", "S", "o", "u", "r", "c", "e", ":", " ", "h", "t",
    "t", "p", ":", "/", "/", "e", "x", ".", "o", "r", "g", "/", "b", NL, NL, "M", "a",
    "r", "k", "d", "o", "w", "n", " ", "C", "o", "n", "t", "e", "n", "t", ":", NL, "#",
    " ", "O", "r", "i", "g", "i", "n", "a", "l", " ", "U", "R", "L", ":", " ", "u",
    " ", " ", NL>>
T_PADSHORT ==
  <<NL, NL, NL, " ", " ", " ", " ", " ", " ", " ", " ", " ", " ", " ", " ", " ", " ",
    " ", " ", " ", " ", " ", " ", " ", " ", " ", " ", " ", " ", " ", " ", " ", " ",
    " ", " ", " ", " ", " ", " ", " ", " ", " ", " ", " ", " ", " ", " ", " ", " ",
    " ", " ", " ", " ", "a", "b", "c", NL, NL, NL, "d", "e", "f", " ", " ", " ">>
T_INDENT ==
  <<"T", "i", "t", "l", "e", ":", " ", "t", NL, " ", "U", "R", "L", " ", "S", "o", "u",
    "r", "c", "e", ":", " ", "h", "t", "t", "p", ":", "/", "/", "e", "x", ".", "o",
    "r", "g", "/", "a", NL, NL, "M", "a", "r", "k", "d", "o", "w", "n", " ", "C", "o",
    "n", "t", "e", "n", "t", ":", NL, "#", " ", "O", "r", "i", "g", "i", "n", "a", "l",
    " ", "U", "R", "L", ":", " ", "u">>
T_BREAKPAD ==
  <<NL, NL, NL, "#", " ", "P", "a", "d", "d", "e", "d", " ", "p", "a", "g", "e", " ",
    "h", "h", "h", "h", "h", "h", "h", "h", "h", "h", "h", "h", "h", "h", "h", "h",
    "h", "h", "h", "h", "h", "h", "h", "h", "h", "h", "h", "h", "h", "h", "h", "h",
    "h", "h", "h", "h", "h", "h", "h", "h">>
T_LEADMETA ==
  <<" ", "T", "i", "t", "l", "e", ":", " ", "t", NL, "U", "R", "L", " ", "S", "o", "u",
    "r", "c", "e", ":", " ", "h", "t", "t", "p", ":", "/", "/", "e", "x", ".", "o",
    "r", "g", "/", "a", NL, NL, "M", "a", "r", "k", "d", "o", "w", "n", " ", "C", "o",
    "n", "t", "e", "n", "t", ":", NL, "#", " ", "O", "r", "i", "g", "i", "n", "a", "l",
    " ", "U", "R", "L", ":", " ", "u">>

\* a response of the extraction service: an HTTP status and a body, or (status 0)
\* an exception of the HTTP client and its message
Http(status, text) == [status |-> status, text |-> text]

\* the answers the extraction service may give for a URL
Service(url) ==
  IF url = U_A THEN {Http(200, T_PAD), Http(200, T_META), Http(429, <<>>)}
  ELSE IF url = U_B THEN {Http(200, T_EDGE), Http(200, T_FLAT), Http(0, MSG_TIMEOUT)}
  ELSE IF url = U_C THEN {Http(200, T_INDENT), Http(200, T_PADSHORT), Http(404, <<>>)}
  ELSE {Http(200, T_OK), Http(200, T_SHORT), Http(429, <<>>), Http(500, <<>>)}

\* the href values of the anchors of the page behind a seed URL, in page order
Anchors(url) ==
  IF url = U_SEED THEN <<U_A, U_IMG, U_B, U_REL, U_C>>
  ELSE IF url = U_SKIP THEN <<U_IMG, U_C, U_REL>>
  ELSE <<U_IMG, U_REL>>

Seeds == {U_SEED, U_ARXIV, U_SKIP}

\* no request
NoUrl == <<>>

\* the requests the process handles, one seed per crawl (NoUrl: the request is
\* never made): a crawl of the page with three links runs alone, the
\* other crawls run side by side
Requests(seed) ==
  /\ \E c \in DOMAIN seed : seed[c] # NoUrl
  /\ \A c, d \in DOMAIN seed : (c # d /\ seed[c] = U_SEED) => seed[d] = NoUrl

Crawls == 1..NCrawls

\* the most links a page yields
MaxLinks == 3

(***************************************************************************)
(* State                                                                   *)
(***************************************************************************)
VARIABLES
  clock,               \* time.time(), in seconds
  last_request_times,  \* the rate limiter's window (line 32)
  admitted,            \* history: the time of every admission, in order
  requests,            \* history: the number of requests sent to the extraction service
  progress_tracker,    \* tracker_id -> counters (lines 203-213)
  results_tracker,     \* job id -> the archive registered for download (line 214)
  crawl,               \* per request: scrape_url's position and locals
  fetch,               \* per request and URL: get_markdown_content's position and locals
  caller,              \* SpecRL: the coroutines that call acquire_rate_limit
  probe,               \* SpecContent, SpecLinks: the inputs put to a function
  stream               \* SpecStream: progress_generator's position and last snapshot

vars ==
  <<clock, last_request_times, admitted, requests, progress_tracker, results_tracker,
    crawl, fetch, caller, probe, stream>>

\* the state of the crawls, of the rate limiter, and of the other specifications
crawlVars == <<progress_tracker, results_tracker, crawl, fetch>>
limiterVars == <<last_request_times, admitted, requests>>

\* str(hash(url)), lines 388 and 424: a function of the URL alone
tracker_id(url) == url

\* the default record of the defaultdict (lines 203-213); the fields "task" and
\* "cancelled" are never written and are left out
DefaultRecord ==
  [total |-> 0, processed |-> 0, successful |-> 0, potential_successful |-> 0,
   skipped |-> 0, failed |-> 0, current_url |-> <<>>]

\* progress_tracker[tid]: a defaultdict creates the record on a miss
Get(pt, tid) == IF tid \in DOMAIN pt THEN pt[tid] ELSE DefaultRecord

\* progress_tracker[tid] = rec
Put(pt, tid, rec) == [k \in DOMAIN pt \cup {tid} |-> IF k = tid THEN rec ELSE pt[k]]

\* del progress_tracker[tid]
Del(pt, tid) == [k \in DOMAIN pt \ {tid} |-> pt[k]]

\* a call of get_markdown_content that has not started
NewFetch(url) ==
  [url |-> url, pc |-> "none", retries |-> 0, attempts |-> 0, waits |-> <<>>,
   wake |-> 0, last |-> -1, target |-> <<>>, timeout |-> 0,
   outcome |-> "none", content |-> <<>>]

\* the call has returned (url, content): its locals are gone; the model keeps
\* the status of the last response
Returned(f, outcome, content) ==
  [NewFetch(f.url) EXCEPT !.pc = "done", !.outcome = outcome, !.content = content,
                          !.last = f.last]

NoFetch == NewFetch(<<>>)

\* nothing has been admitted, nothing is tracked
InitShared ==
  /\ clock = 0
  /\ last_request_times = <<>>
  /\ admitted = <<>>
  /\ requests = 0
  /\ progress_tracker = <<>>
  /\ results_tracker = <<>>

\* the crawls that serve the requests `seed`
InitCrawls(seed) ==
  /\ crawl = [c \in Crawls |->
                [url |-> seed[c], pc |-> IF seed[c] = NoUrl THEN "unused" ELSE "seed",
                 links |-> <<>>, results |-> <<>>, i |-> 0, pauses |-> <<>>,
                 failures |-> 0, final_counts |-> DefaultRecord, response |-> <<>>]]
  /\ fetch = [c \in Crawls |->
                [k \in 0..MaxLinks |->
                   IF k = 0 /\ seed[c] # NoUrl
                   THEN [NewFetch(seed[c]) EXCEPT !.pc = "created"] ELSE NoFetch]]

NoCallers == <<>>
NoProbe == [texts |-> <<>>, fetched |-> <<>>, zip |-> <<>>]

\* the data of lines 310-317 and 322-329 for the record rec, with the given
\* value of "successful"
Snapshot(rec, successful) ==
  [total |-> rec.total, processed |-> rec.processed, successful |-> successful,
   skipped |-> rec.skipped, failed |-> rec.failed, current_url |-> rec.current_url]

\* a call of progress_generator for the tracker key tid that has not run yet
NewStream(tid) ==
  [tid |-> tid, pc |-> "idle", kind |-> "none", last |-> Snapshot(DefaultRecord, 0)]

\* no GET /api/scrape/progress is made
NoStream == [NewStream(<<>>) EXCEPT !.pc = "unused"]

Init ==
  /\ InitShared
  /\ \E seed \in [Crawls -> Seeds \cup {NoUrl}] : Requests(seed) /\ InitCrawls(seed)
  /\ caller = NoCallers
  /\ probe = NoProbe
  /\ stream = NoStream

(***************************************************************************)
(* acquire_rate_limit (lines 166-182)                                      *)
(***************************************************************************)
\* faulty variant of acquire_rate_limit: the window is full only above RATE_LIMIT
acquire_above_limit(now, times) ==
  LET InWindow(t) == now - t < RATE_PERIOD
      trimmed == SelectSeq(times, InWindow)
      sleep_time == IF Len(trimmed) > RATE_LIMIT
                    THEN RATE_PERIOD - (now - trimmed[1]) ELSE 0
  IN  IF Len(trimmed) > RATE_LIMIT /\ sleep_time > 0
      THEN [admit |-> FALSE, times |-> trimmed, sleep_time |-> sleep_time]
      ELSE [admit |-> TRUE, times |-> Append(trimmed, now), sleep_time |-> 0]

\* faulty variant of acquire_rate_limit: the window counts as full one
\* admission early
acquire_below_limit(now, times) ==
  LET InWindow(t) == now - t < RATE_PERIOD
      trimmed == SelectSeq(times, InWindow)
      sleep_time == IF Len(trimmed) >= RATE_LIMIT - 1
                    THEN RATE_PERIOD - (now - trimmed[1]) ELSE 0
  IN  IF Len(trimmed) >= RATE_LIMIT - 1 /\ sleep_time > 0
      THEN [admit |-> FALSE, times |-> trimmed, sleep_time |-> sleep_time]
      ELSE [admit |-> TRUE, times |-> Append(trimmed, now), sleep_time |-> 0]

\* faulty variant of acquire_rate_limit: the old timestamps are never dropped
acquire_untrimmed(now, times) ==
  LET sleep_time == IF Len(times) >= RATE_LIMIT
                    THEN RATE_PERIOD - (now - times[1]) ELSE 0
  IN  IF Len(times) >= RATE_LIMIT /\ sleep_time > 0
      THEN [admit |-> FALSE, times |-> times, sleep_time |-> sleep_time]
      ELSE [admit |-> TRUE, times |-> Append(times, now), sleep_time |-> 0]

\* one evaluation of the body at time `now`: the caller is admitted (and `now`
\* appended), or it must sleep for sleep_time and evaluate again
acquire_rate_limit(now, times) ==
  LET InWindow(t) == now - t < RATE_PERIOD
      trimmed == SelectSeq(times, InWindow)
      sleep_time == IF Len(trimmed) >= RATE_LIMIT
                    THEN RATE_PERIOD - (now - trimmed[1]) ELSE 0
  IN  IF Len(trimmed) >= RATE_LIMIT /\ sleep_time > 0
      THEN [admit |-> FALSE, times |-> trimmed, sleep_time |-> sleep_time]
      ELSE [admit |-> TRUE, times |-> Append(trimmed, now), sleep_time |-> 0]

\* time passes
Tick ==
  /\ clock + TickLen <= MaxTime
  /\ clock' = clock + TickLen
  /\ UNCHANGED <<limiterVars, crawlVars, caller, probe, stream>>

(***************************************************************************)
(* get_markdown_content (lines 226-305)                                    *)
(***************************************************************************)
\* faulty variants of MarkSkipped and MarkFailed: the wrong counter, and
\* processed left alone
MarkSkippedAsFailed(rec) == [rec EXCEPT !.processed = @ + 1, !.failed = @ + 1]
MarkFailedUncounted(rec) == [rec EXCEPT !.failed = @ + 1]

\* faulty variant of MarkFailed: the failure is counted as processed only
MarkFailedAsProcessed(rec) == [rec EXCEPT !.processed = @ + 1]

\* faulty variant of MarkSuccess: processed left alone
MarkSuccessUncounted(rec) == [rec EXCEPT !.potential_successful = @ + 1]

\* lines 231-232, 276-277 and 303-304: the counters of a terminal outcome
MarkSkipped(rec) == [rec EXCEPT !.processed = @ + 1, !.skipped = @ + 1]
MarkSuccess(rec) == [rec EXCEPT !.processed = @ + 1, !.potential_successful = @ + 1]
MarkFailed(rec) == [rec EXCEPT !.processed = @ + 1, !.failed = @ + 1]

\* asyncio.sleep(RETRY_DELAY * retries), then `continue` (lines 283-286, 295-299)
Backoff(f, retries) ==
  [f EXCEPT !.retries = retries, !.pc = "backoff",
            !.waits = Append(@, RETRY_DELAY * retries)]

\* faulty variant of GiveUp: the exception leaves get_markdown_content
Propagate(f, retries) == [f EXCEPT !.retries = retries, !.pc = "raised"]

\* `break`, then lines 303-305
GiveUp(f, retries) == Returned(f, "failed", <<>>)

\* faulty variant of OnException: one retry fewer
OnExceptionOneShort(f, msg) ==
  LET retries == f.retries + 1
  IN  IF retries < MAX_RETRIES /\ Retryable(msg)
      THEN Backoff(f, retries)
      ELSE GiveUp(f, retries)

\* the except clause, lines 291-301, for an exception whose str() is msg
OnException(f, msg) ==
  LET retries == f.retries + 1
  IN  IF retries <= MAX_RETRIES /\ Retryable(msg)
      THEN Backoff(f, retries)
      ELSE GiveUp(f, retries)

\* what follows `response = await client.get(...)`, lines 260-289
OnResponse(f, r) ==
  LET g == [f EXCEPT !.last = r.status]
  IN  IF r.status = 0 THEN OnException(g, r.text)
      ELSE IF r.status = 200
      THEN LET content == Strip(r.text)
               raised == FetchCheck(content)
           IN  IF raised # <<>> THEN OnException(g, raised)
               ELSE Returned(g, "success", content)
      ELSE IF r.status = 429 /\ g.retries + 1 <= MAX_RETRIES
      THEN Backoff(g, g.retries + 1)
      ELSE OnException([g EXCEPT !.retries = IF r.status = 429 THEN @ + 1 ELSE @],
                       MSG_FAILED \o IntToStr(r.status))

\* the top of the retry loop, lines 250-258: the rate limiter, then the request
Attempt(f) ==
  LET a == acquire_rate_limit(clock, last_request_times)
  IN  IF a.admit
      THEN [f EXCEPT !.pc = "requesting", !.attempts = @ + 1, !.wake = 0]
      ELSE [f EXCEPT !.pc = "rl_sleep", !.wake = clock + a.sleep_time]

\* the counters of the record after the step that took the call to f2
Marked(rec, f2) ==
  IF f2.pc # "done" THEN rec
  ELSE IF f2.outcome = "skipped" THEN MarkSkipped(rec)
  ELSE IF f2.outcome = "success" THEN MarkSuccess(rec)
  ELSE MarkFailed(rec)

\* The step of call k of crawl c that leaves it as f2, having read the record
\* pt0[tid].  The seed's call (k = 0) is awaited directly by scrape_url, which
\* goes on to the request of line 434 when the call returns; an exception
\* leaving it reaches the handler of lines 485-492.
FetchStep(c, k, f2, pt0) ==
  LET tid == tracker_id(crawl[c].url)
      pt1 == IF f2.pc = "done" THEN Put(pt0, tid, Marked(Get(pt0, tid), f2)) ELSE pt0
  IN  /\ fetch' = [fetch EXCEPT ![c][k] = f2]
      /\ IF k = 0 /\ f2.pc = "done"
         THEN /\ crawl' = [crawl EXCEPT ![c].pc = "rawfetch",
                                        ![c].results = <<[url |-> f2.url, content |-> f2.content]>>]
              /\ progress_tracker' = pt1
         ELSE IF k = 0 /\ f2.pc = "raised"
         THEN /\ crawl' = [crawl EXCEPT ![c].pc = "aborted", ![c].failures = @ + 1]
              /\ progress_tracker' = Del(pt1, tid)
         ELSE /\ crawl' = crawl
              /\ progress_tracker' = pt1

\* a retry loop that passes the rate limiter on the first attempt only
LimiterFirstAttemptOnly(f2) ==
  LET a == acquire_rate_limit(clock, last_request_times)
      first == f2.pc = "requesting" /\ f2.attempts = 1
  IN  /\ last_request_times' = IF first \/ f2.pc = "rl_sleep" THEN a.times
                               ELSE last_request_times
      /\ admitted' = IF first THEN Append(admitted, clock) ELSE admitted
      /\ requests' = IF f2.pc = "requesting" THEN requests + 1 ELSE requests

\* the rate limiter's state after the step that took a call to f2
Limiter(f2) ==
  LET a == acquire_rate_limit(clock, last_request_times)
  IN  /\ last_request_times' = IF f2.pc \in {"requesting", "rl_sleep"} THEN a.times
                               ELSE last_request_times
      /\ admitted' = IF f2.pc = "requesting" THEN Append(admitted, clock) ELSE admitted
      /\ requests' = IF f2.pc = "requesting" THEN requests + 1 ELSE requests

\* the call starts: lines 228-258, to the first suspension
FetchStart(c, k) ==
  LET f == fetch[c][k]
      tid == tracker_id(crawl[c].url)
      pt0 == Put(progress_tracker, tid,
                 [Get(progress_tracker, tid) EXCEPT !.current_url = f.url])
      target == transform_arxiv_url(f.url)
      f1 == [f EXCEPT !.target = target,
                      !.timeout = IF is_pdf_url(target) THEN PDF_TIMEOUT ELSE DEFAULT_TIMEOUT]
      f2 == IF should_skip_url(f.url)
            THEN Returned(f, "skipped", <<>>)
            ELSE Attempt(f1)
  IN  /\ f.pc = "created"
      /\ FetchStep(c, k, f2, pt0)
      /\ Limiter(f2)
      /\ UNCHANGED <<clock, results_tracker, caller, probe, stream>>

\* a sleep is over (the backoff of the retry loop, or the wait inside
\* acquire_rate_limit): the rate limiter is evaluated again
FetchResume(c, k) ==
  LET f == fetch[c][k]
      f2 == Attempt(f)
  IN  /\ f.pc \in {"backoff", "rl_sleep"}
      /\ f.pc = "rl_sleep" => clock >= f.wake
      /\ FetchStep(c, k, f2, progress_tracker)
      /\ Limiter(f2)
      /\ UNCHANGED <<clock, results_tracker, caller, probe, stream>>

\* the extraction service answers, or the HTTP client raises
FetchResponse(c, k) ==
  LET f == fetch[c][k]
  IN  /\ f.pc = "requesting"
      /\ \E r \in Service(f.target) : FetchStep(c, k, OnResponse(f, r), progress_tracker)
      /\ UNCHANGED <<clock, limiterVars, results_tracker, caller, probe, stream>>

(***************************************************************************)
(* create_zip_file (lines 332-378)                                         *)
(***************************************************************************)
\* a loop that passes over rejected content as it does over empty content,
\* without counting it
RECURSIVE ZipLoopUncounted(_, _, _)
ZipLoopUncounted(contents, i, acc) ==
  IF i > Len(contents) THEN acc
  ELSE LET p == contents[i]
       IN  IF p.content = <<>> \/ ArchiveRejects(p.content)
           THEN ZipLoopUncounted(contents, i + 1, acc)
           ELSE ZipLoopUncounted(contents, i + 1,
                                 [acc EXCEPT !.rec.successful = @ + 1, !.written = Append(@, p)])

\* the loop of lines 342-364 from pair i on; acc holds the record and the
\* entries written so far
RECURSIVE ZipLoop(_, _, _)
ZipLoop(contents, i, acc) ==
  IF i > Len(contents) THEN acc
  ELSE LET p == contents[i]
       IN  IF p.content = <<>> THEN ZipLoop(contents, i + 1, acc)
           ELSE IF ArchiveRejects(p.content)
           THEN ZipLoop(contents, i + 1, [acc EXCEPT !.rec.failed = @ + 1])
           ELSE ZipLoop(contents, i + 1,
                        [acc EXCEPT !.rec.successful = @ + 1, !.written = Append(@, p)])

\* a build that goes on to make the archive whatever file_count is
create_zip_file_unchecked(contents, rec) ==
  LET acc == ZipLoop(contents, 1, [rec |-> [rec EXCEPT !.successful = 0], written |-> <<>>])
  IN  [rec |-> acc.rec, written |-> acc.written, raised |-> FALSE]

\* the record after the call, the entries written, and whether the call raised
\* "No valid content to download" (line 367)
create_zip_file(contents, rec) ==
  LET acc == ZipLoop(contents, 1, [rec |-> [rec EXCEPT !.successful = 0], written |-> <<>>])
  IN  [rec |-> acc.rec, written |-> acc.written, raised |-> Len(acc.written) = 0]

(***************************************************************************)
(* scrape_url (lines 423-492)                                              *)
(***************************************************************************)
Min(a, b) == IF a < b THEN a ELSE b

\* lines 438-441: the absolute links that match no skip pattern
Links(anchors) ==
  LET Wanted(h) == StartsWith(h, HTTP) /\ ~should_skip_url(h)
  IN  SelectSeq(anchors, Wanted)

\* a batch that takes every link left
BatchOfAllLeft(links, i) == (i + 1)..Len(links)

\* the indices (into links, from 1) of the batch that starts after link i
Batch(links, i) == (i + 1)..Min(i + batch_size, Len(links))

\* lines 451-456: a task per link of the batch
Dispatch(fs, links, i) ==
  [k \in DOMAIN fs |->
     IF k \in Batch(links, i) THEN [NewFetch(links[k]) EXCEPT !.pc = "created"] ELSE fs[k]]

\* an ending without the try of lines 463-469: the error of the archive build
\* reaches the handler of lines 485-492 and the request fails
FinishOrFail(c, cr, pt) ==
  LET tid == tracker_id(cr.url)
      z == create_zip_file(cr.results, Get(pt, tid))
  IN  /\ progress_tracker' = Del(Put(pt, tid, z.rec), tid)
      /\ results_tracker' = IF z.raised THEN results_tracker
                            ELSE Put(results_tracker, c, z.written)
      /\ crawl' = [crawl EXCEPT ![c] =
                     IF z.raised
                     THEN [cr EXCEPT !.pc = "aborted", !.failures = @ + 1]
                     ELSE [cr EXCEPT !.pc = "returned", !.final_counts = z.rec,
                                     !.response = [links |-> <<cr.url>> \o cr.links,
                                                   jobId |-> c,
                                                   successful |-> z.rec.successful,
                                                   skipped |-> z.rec.skipped,
                                                   failed |-> z.rec.failed]]]

\* lines 463-483, for the crawl record cr and the tracker pt: the archive is
\* built and registered, the counts are read, the record is deleted
Finish(c, cr, pt) ==
  LET tid == tracker_id(cr.url)
      z == create_zip_file(cr.results, Get(pt, tid))
  IN  /\ progress_tracker' = Del(Put(pt, tid, z.rec), tid)
      /\ results_tracker' = IF z.raised THEN results_tracker
                            ELSE Put(results_tracker, c, z.written)
      /\ crawl' = [crawl EXCEPT ![c] =
                     [cr EXCEPT !.pc = "returned", !.final_counts = z.rec,
                                !.response = [links |-> <<cr.url>> \o cr.links,
                                              jobId |-> c,
                                              successful |-> z.rec.successful,
                                              skipped |-> z.rec.skipped,
                                              failed |-> z.rec.failed]]]

\* faulty variant of Abort: the record is left in the tracker
AbortKeepsRecord(c, pt) ==
  /\ progress_tracker' = pt
  /\ crawl' = [crawl EXCEPT ![c].pc = "aborted", ![c].failures = @ + 1]

\* lines 485-492: the record is deleted and HTTPException(500) raised
Abort(c, pt) ==
  /\ progress_tracker' = Del(pt, tracker_id(crawl[c].url))
  /\ crawl' = [crawl EXCEPT ![c].pc = "aborted", ![c].failures = @ + 1]

\* the request of line 434 (or the parsing after it) raises
RawFetchFail(c) ==
  /\ crawl[c].pc = "rawfetch"
  /\ Abort(c, progress_tracker)
  /\ UNCHANGED <<clock, limiterVars, results_tracker, fetch, caller, probe, stream>>

\* the request of line 434 returns the page: lines 435-456
RawFetchOk(c) ==
  LET cr == crawl[c]
      tid == tracker_id(cr.url)
      links == Links(Anchors(cr.url))
      pt1 == Put(progress_tracker, tid,
                 [Get(progress_tracker, tid) EXCEPT !.total = Len(links) + 1,
                                                    !.processed = 1])
  IN  /\ cr.pc = "rawfetch"
      /\ IF links = <<>>
         THEN /\ Finish(c, [cr EXCEPT !.links = links], pt1)
              /\ fetch' = fetch
         ELSE /\ progress_tracker' = pt1
              /\ crawl' = [crawl EXCEPT ![c].links = links, ![c].i = 0, ![c].pc = "gather"]
              /\ fetch' = [fetch EXCEPT ![c] = Dispatch(@, links, 0)]
              /\ results_tracker' = results_tracker
      /\ UNCHANGED <<clock, limiterVars, caller, probe, stream>>

\* a test on the start of the batch instead of its end: it holds after every
\* batch, the last included
BatchStartsInside(links, i) == i < Len(links)

\* line 460: links are left after the batch that starts after link i
MoreBatches(links, i) == i + batch_size < Len(links)

\* a gather that lists the results of the n calls after call i last first
GatherResultsReversed(fs, i, n) ==
  [j \in 1..n |-> [url |-> fs[i + n + 1 - j].url, content |-> fs[i + n + 1 - j].content]]

\* the value of asyncio.gather(*tasks), line 456, for the n calls after call
\* i: the pairs they returned, in the order of the tasks
GatherResults(fs, i, n) ==
  [j \in 1..n |-> [url |-> fs[i + j].url, content |-> fs[i + j].content]]

\* asyncio.gather returns (lines 456-461): every call of the batch has
\* returned, or one of them raised and the exception reaches lines 485-492
BatchJoin(c) ==
  LET cr == crawl[c]
      batch == Batch(cr.links, cr.i)
      raised == \E k \in batch : fetch[c][k].pc = "raised"
      returned == \A k \in batch : fetch[c][k].pc = "done"
      batch_results == GatherResults(fetch[c], cr.i, Cardinality(batch))
      cr1 == [cr EXCEPT !.results = @ \o batch_results]
  IN  /\ cr.pc = "gather"
      /\ (raised \/ returned)
      /\ IF raised
         THEN /\ Abort(c, progress_tracker)
              /\ results_tracker' = results_tracker
         ELSE IF MoreBatches(cr.links, cr.i)
         THEN /\ crawl' = [crawl EXCEPT ![c] =
                             [cr1 EXCEPT !.pc = "pause",
                                         !.pauses = Append(@, RATE_PERIOD \div 2)]]
              /\ UNCHANGED <<progress_tracker, results_tracker>>
         ELSE Finish(c, cr1, progress_tracker)
      /\ UNCHANGED <<clock, limiterVars, fetch, caller, probe, stream>>

\* the pause between two batches is over: the next batch is dispatched
NextBatch(c) ==
  LET cr == crawl[c]
  IN  /\ cr.pc = "pause"
      /\ crawl' = [crawl EXCEPT ![c].i = @ + batch_size, ![c].pc = "gather"]
      /\ fetch' = [fetch EXCEPT ![c] = Dispatch(@, cr.links, cr.i + batch_size)]
      /\ UNCHANGED <<clock, limiterVars, progress_tracker, results_tracker, caller, probe, stream>>

\* a call of some crawl is asleep inside acquire_rate_limit
LimiterBusy == \E c \in Crawls, k \in 0..MaxLinks : fetch[c][k].pc = "rl_sleep"

\* Time passes while a call waits for the rate limiter.  The crawl reads the
\* clock nowhere else: the lengths of its other sleeps are recorded (waits,
\* pauses) and the sleeper resumes at any later step.
CrawlTick == LimiterBusy /\ Tick

Next ==
  \/ CrawlTick
  \/ \E c \in Crawls :
       \/ RawFetchFail(c)
       \/ RawFetchOk(c)
       \/ BatchJoin(c)
       \/ NextBatch(c)
       \/ \E k \in 0..MaxLinks :
            \/ FetchStart(c, k)
            \/ FetchResume(c, k)
            \/ FetchResponse(c, k)

Spec == Init /\ [][Next]_vars

(***************************************************************************)
(* SpecRL: acquire_rate_limit alone, called by concurrent coroutines while *)
(* time passes freely                                                      *)
(***************************************************************************)
NCallers == 2
Callers == 1..NCallers

\* a coroutine outside acquire_rate_limit; depth is the number of recursive
\* calls (line 179) of the call it is in
Idle == [pc |-> "idle", wake |-> 0, depth |-> 0]

InitRL ==
  /\ InitShared
  /\ InitCrawls([c \in Crawls |-> NoUrl])
  /\ caller = [p \in Callers |-> Idle]
  /\ probe = NoProbe
  /\ stream = NoStream

\* the frame of caller p that sleeps next: the first call, or one recursive
\* call deeper than the frame that slept before
Sleeping(p, wake) ==
  [pc |-> "sleeping", wake |-> wake,
   depth |-> IF caller[p].pc = "sleeping" THEN caller[p].depth + 1 ELSE 0]

\* a limiter that waits once: a caller that wakes is admitted without trimming
\* and counting the window again
EvaluateOnce(p) ==
  LET a == acquire_rate_limit(clock, last_request_times)
      admit == a.admit \/ caller[p].pc = "sleeping"
  IN  /\ last_request_times' = IF a.admit THEN a.times ELSE Append(a.times, clock)
      /\ admitted' = IF admit THEN Append(admitted, clock) ELSE admitted
      /\ caller' = [caller EXCEPT ![p] =
                      IF admit THEN Idle ELSE Sleeping(p, clock + a.sleep_time)]
      /\ UNCHANGED <<clock, requests, crawlVars, probe, stream>>

\* caller p evaluates the body of acquire_rate_limit: it is admitted and
\* returns, or it goes to sleep (line 178) and evaluates again on waking
\* (the recursive call of line 179)
Evaluate(p) ==
  LET a == acquire_rate_limit(clock, last_request_times)
  IN  /\ last_request_times' = a.times
      /\ admitted' = IF a.admit THEN Append(admitted, clock) ELSE admitted
      /\ caller' = [caller EXCEPT ![p] =
                      IF a.admit THEN Idle ELSE Sleeping(p, clock + a.sleep_time)]
      /\ UNCHANGED <<clock, requests, crawlVars, probe, stream>>

RLCall(p) == caller[p].pc = "idle" /\ Evaluate(p)

RLWake(p) == caller[p].pc = "sleeping" /\ clock >= caller[p].wake /\ Evaluate(p)

NextRL ==
  \/ Tick
  \/ \E p \in Callers :
       \/ RLCall(p)
       \/ RLWake(p)

SpecRL == InitRL /\ [][NextRL]_vars

(***************************************************************************)
(* SpecContent: the two content checks applied to given texts: the 200     *)
(* branch of get_markdown_content, and create_zip_file called directly (as *)
(* src/test_integration.py calls it)                                       *)
(***************************************************************************)
\* the most pairs handed to one archive build
MaxPairs == 2

AllTexts ==
  {T_OK, T_PAD, T_EDGE, T_49, T_SHORT, T_FLAT, T_META, T_METAPAD, T_PADSHORT, T_INDENT,
   T_BREAKPAD, T_LEADMETA}

ProbeUrls == <<U_A, U_B, U_C, U_SEED>>

InitContent ==
  /\ InitShared
  /\ InitCrawls([c \in Crawls |-> NoUrl])
  /\ caller = NoCallers
  /\ stream = NoStream
  /\ \E n \in 1..MaxPairs : \E texts \in [1..n -> AllTexts] :
       probe = [texts |-> texts, fetched |-> <<>>, zip |-> <<>>]

\* the extraction service answers the first request for the next URL with
\* status 200 and the next text
ProbeFetch ==
  LET i == Len(probe.fetched) + 1
      f == [NewFetch(ProbeUrls[i]) EXCEPT !.pc = "requesting", !.attempts = 1]
      g == OnResponse(f, Http(200, probe.texts[i]))
  IN  /\ i <= Len(probe.texts)
      /\ probe' = [probe EXCEPT !.fetched =
                     Append(@, [pc |-> g.pc, outcome |-> g.outcome, content |-> g.content])]
      /\ UNCHANGED <<clock, limiterVars, crawlVars, caller, stream>>

\* create_zip_file is called with the texts as they are
ProbeZip ==
  LET pairs == [i \in 1..Len(probe.texts) |->
                  [url |-> ProbeUrls[i], content |-> probe.texts[i]]]
  IN  /\ probe.zip = <<>>
      /\ probe' = [probe EXCEPT !.zip = <<create_zip_file(pairs, DefaultRecord)>>]
      /\ UNCHANGED <<clock, limiterVars, crawlVars, caller, stream>>

NextContent == ProbeFetch \/ ProbeZip

SpecContent == InitContent /\ [][NextContent]_vars

(***************************************************************************)
(* SpecLinks: link discovery and dispatch (lines 438-456 of scrape_url)    *)
(* for a given page                                                        *)
(***************************************************************************)
\* the most anchors of a page drawn freely
MaxAnchors == 3

Hrefs == {U_A, U_B, U_IMG, U_SKIP, U_REL, U_HTTPREL}

\* a page with 12 links to fetch and 3 that match a skip pattern
PageOfFifteen ==
  <<U_A, U_B, U_C, U_IMG, U_A, U_B, U_C, U_SKIP, U_A, U_B, U_C, U_A, U_B, U_IMG, U_C>>

InitLinks ==
  /\ InitShared
  /\ InitCrawls([c \in Crawls |-> NoUrl])
  /\ caller = NoCallers
  /\ stream = NoStream
  /\ \E anchors \in {PageOfFifteen} \cup UNION {[1..n -> Hrefs] : n \in 0..MaxAnchors} :
       probe = [pc |-> "page", anchors |-> anchors, links |-> <<>>,
                rec |-> MarkSuccess(DefaultRecord), i |-> 0, dispatched |-> <<>>]

\* lines 438-445: the links are filtered, total and processed are set
Discover ==
  LET links == Links(probe.anchors)
  IN  /\ probe.pc = "page"
      /\ probe' = [probe EXCEPT !.pc = IF links = <<>> THEN "assembling" ELSE "batches",
                                 !.links = links,
                                 !.rec = [@ EXCEPT !.total = Len(links) + 1, !.processed = 1]]
      /\ UNCHANGED <<clock, limiterVars, crawlVars, caller, stream>>

\* lines 450-456: the next batch is dispatched
DispatchBatch ==
  LET batch == Batch(probe.links, probe.i)
      urls == [j \in 1..Cardinality(batch) |-> probe.links[probe.i + j]]
  IN  /\ probe.pc = "batches"
      /\ probe' = [probe EXCEPT !.dispatched = @ \o urls,
                                 !.i = @ + batch_size,
                                 !.pc = IF probe.i + batch_size < Len(probe.links)
                                        THEN "batches" ELSE "assembling"]
      /\ UNCHANGED <<clock, limiterVars, crawlVars, caller, stream>>

NextLinks == Discover \/ DispatchBatch

SpecLinks == InitLinks /\ [][NextLinks]_vars

(***************************************************************************)
(* SpecStream: a crawl and a progress stream (GET /api/scrape/progress,    *)
(* lines 385-392, and progress_generator, lines 307-330) for its tracker   *)
(* key                                                                     *)
(***************************************************************************)
InitStream ==
  /\ InitShared
  /\ \E seed \in [Crawls -> Seeds \cup {NoUrl}] :
       /\ Requests(seed)
       /\ \A c \in Crawls : c > 1 => seed[c] = NoUrl
       /\ InitCrawls(seed)
       /\ stream = NewStream(tracker_id(seed[1]))
  /\ caller = NoCallers
  /\ probe = NoProbe

\* a generator that stays in its loop until total has been set
StreamPollWaitsForTotal ==
  LET rec == Get(progress_tracker, stream.tid)
  IN  /\ stream.pc \in {"idle", "sleeping"}
      /\ progress_tracker' = Put(progress_tracker, stream.tid, rec)
      /\ stream' = IF rec.processed < rec.total \/ rec.total = 0
                    THEN [stream EXCEPT !.pc = "sleeping", !.kind = "progress",
                                        !.last = Snapshot(rec, rec.potential_successful)]
                    ELSE [stream EXCEPT !.pc = "ended", !.kind = "final",
                                        !.last = Snapshot(rec, rec.successful)]
      /\ UNCHANGED <<clock, limiterVars, results_tracker, crawl, fetch, caller, probe>>

\* One turn of the generator, from one suspension to the next: the loop test
\* of line 309 and either the snapshot of lines 310-318 and the sleep of line
\* 319, or the final snapshot of lines 322-330.  Every read goes through the
\* defaultdict, so a missing record is created.
StreamPoll ==
  LET rec == Get(progress_tracker, stream.tid)
  IN  /\ stream.pc \in {"idle", "sleeping"}
      /\ progress_tracker' = Put(progress_tracker, stream.tid, rec)
      /\ stream' = IF rec.processed < rec.total
                    THEN [stream EXCEPT !.pc = "sleeping", !.kind = "progress",
                                        !.last = Snapshot(rec, rec.potential_successful)]
                    ELSE [stream EXCEPT !.pc = "ended", !.kind = "final",
                                        !.last = Snapshot(rec, rec.successful)]
      /\ UNCHANGED <<clock, limiterVars, results_tracker, crawl, fetch, caller, probe>>

NextStream == Next \/ StreamPoll

SpecStream == InitStream /\ [][NextStream]_vars

(***************************************************************************)
(* Properties                                                              *)
(***************************************************************************)
Keys == 0..MaxLinks

\* the positions of a call that has started and has not returned
Running == {"created", "requesting", "backoff", "rl_sleep"}

\* the progress record of crawl c's tracker key, before and after a step
RecOf(c) == Get(progress_tracker, tracker_id(crawl[c].url))
RecAfter(c) == Get(progress_tracker', tracker_id(crawl[c].url))

\* 1 when the condition holds, 0 otherwise
One(cond) == IF cond THEN 1 ELSE 0

\* C1: in every state the tracker holds, the record of every tracker key has
\* processed <= total.  (The code breaks this: the seed's fetch counts itself
\* as processed before total is set.)
C1_ProcessedAtMostTotal ==
  \A tid \in DOMAIN progress_tracker :
    progress_tracker[tid].processed <= progress_tracker[tid].total

\* C2: in every state the tracker holds, the record of every tracker key has
\* potential_successful + skipped + failed <= processed.  (The code breaks
\* this when two crawls of one seed URL run side by side.)
C2_OutcomesAtMostProcessed ==
  \A tid \in DOMAIN progress_tracker :
    LET rec == progress_tracker[tid]
    IN  rec.potential_successful + rec.skipped + rec.failed <= rec.processed

\* C3: whatever the interleaving of the callers of acquire_rate_limit, every
\* window of RATE_PERIOD seconds (open at its start, closed at its end) holds
\* the admission times of at most RATE_LIMIT admissions.
C3_AtMostLimitPerWindow ==
  \A start \in (0 - RATE_PERIOD)..MaxTime :
    Cardinality({i \in 1..Len(admitted) :
                   start < admitted[i] /\ admitted[i] <= start + RATE_PERIOD}) <= RATE_LIMIT

\* the rate limiter has refused a caller, who sleeps, and has admitted more
\* than RATE_LIMIT calls over time
C3_Witness ==
  /\ Len(admitted) > RATE_LIMIT
  /\ \E p \in Callers : caller[p].pc = "sleeping" /\ caller[p].wake > clock

\* C4: the step of a call of get_markdown_content for a URL that matches a skip
\* pattern sends no request, takes no admission and leaves the rate limiter's
\* window as it was, adds 1 to processed and 1 to skipped, changes no other
\* counter, and returns empty content.
C4_SkippedWithoutRequest ==
  [][\A c \in Crawls, k \in Keys :
       LET f == fetch[c][k]
           g == fetch'[c][k]
       IN  (f.pc = "created" /\ g # f /\ should_skip_url(f.url)) =>
             /\ requests' = requests
             /\ admitted' = admitted
             /\ last_request_times' = last_request_times
             /\ g.pc = "done" /\ g.outcome = "skipped" /\ g.content = <<>>
             /\ RecAfter(c) = [RecOf(c) EXCEPT !.processed = @ + 1, !.skipped = @ + 1,
                                               !.current_url = f.url]]_vars

\* the seed matched a skip pattern: its call has returned and nothing was
\* requested or admitted
C4_Witness ==
  \E c \in Crawls :
    /\ should_skip_url(crawl[c].url)
    /\ fetch[c][0].pc = "done" /\ fetch[c][0].outcome = "skipped"
    /\ RecOf(c).skipped = 1 /\ RecOf(c).processed = 1
    /\ requests = 0 /\ admitted = <<>>

\* C5: a call of get_markdown_content returns once, with one of the outcomes
\* skipped, success, failed; the step that returns adds 1 to processed and 1 to
\* the counter of that outcome and to no other; the steps before it change no
\* counter; the content returned is non-empty exactly for a success.
C5_OneTerminalOutcome ==
  [][\A c \in Crawls, k \in Keys :
       LET f == fetch[c][k]
           g == fetch'[c][k]
           r == RecOf(c)
           s == RecAfter(c)
       IN  /\ f.pc = "done" => g = f
           /\ (f.pc \in Running /\ g # f) =>
                IF g.pc = "done"
                THEN /\ g.outcome \in {"skipped", "success", "failed"}
                     /\ s.processed = r.processed + 1
                     /\ s.skipped = r.skipped + One(g.outcome = "skipped")
                     /\ s.potential_successful =
                          r.potential_successful + One(g.outcome = "success")
                     /\ s.failed = r.failed + One(g.outcome = "failed")
                     /\ s.total = r.total /\ s.successful = r.successful
                     /\ (g.content # <<>>) <=> (g.outcome = "success")
                ELSE /\ g.pc \in Running
                     /\ g.outcome = "none"
                     /\ s = [r EXCEPT !.current_url = s.current_url]]_vars

\* every call of a crawl with three links has returned, some failed and some
\* succeeded, and the record counts them all
C5_Witness ==
  \E c \in Crawls :
    /\ crawl[c].pc = "gather" /\ Len(crawl[c].links) = 3
    /\ \A k \in 1..3 : fetch[c][k].pc = "done"
    /\ RecOf(c).processed = RecOf(c).total
    /\ RecOf(c).failed > 0 /\ RecOf(c).potential_successful > 0

C7_OtherStatusRetried ==
  [][\A c \in Crawls, k \in Keys :
       LET f == fetch[c][k]
           g == fetch'[c][k]
       IN  (/\ f.pc = "requesting" /\ g # f
            /\ g.last \notin {0, 200, 429}
            /\ f.attempts <= MAX_RETRIES) => g.pc = "backoff"]_vars

\* C7, amended: an answer with a status other than 200 and 429 is not retried:
\* the call returns at once as failed, with empty content, adding 1 to
\* processed and 1 to failed, whatever the number of attempts made before.
C7_OtherStatusFailsAtOnce ==
  [][\A c \in Crawls, k \in Keys :
       LET f == fetch[c][k]
           g == fetch'[c][k]
       IN  (f.pc = "requesting" /\ g # f /\ g.last \notin {0, 200, 429}) =>
             /\ g.pc = "done" /\ g.outcome = "failed" /\ g.content = <<>>
             /\ RecAfter(c).processed = RecOf(c).processed + 1
             /\ RecAfter(c).failed = RecOf(c).failed + 1]_vars

\* a call answered with 404 or 500 has returned as failed
C7_Witness ==
  \E c \in Crawls, k \in Keys :
    /\ fetch[c][k].pc = "done" /\ fetch[c][k].outcome = "failed"
    /\ fetch[c][k].last \in {404, 500}

\* C8: no outcome of a call of get_markdown_content aborts the crawl: the
\* crawl goes from the seed's call to the raw fetch and from its batches to its
\* return; when it returns, every link's call has returned with an outcome and
\* the results hold one pair per URL; a step of one call changes no other call.
C8_FailuresDoNotAbort ==
  [][\A c \in Crawls :
       /\ crawl[c].pc = "seed" => crawl'[c].pc \in {"seed", "rawfetch"}
       /\ crawl[c].pc \in {"gather", "pause"} =>
            crawl'[c].pc \in {"gather", "pause", "returned"}
       /\ (crawl[c].pc # "returned" /\ crawl'[c].pc = "returned") =>
            /\ \A k \in 1..Len(crawl'[c].links) :
                 /\ fetch'[c][k].pc = "done"
                 /\ fetch'[c][k].outcome \in {"success", "failed"}
            /\ Len(crawl'[c].results) = Len(crawl'[c].links) + 1
            /\ crawl'[c].response # <<>>
            /\ crawl'[c].failures = 0
       /\ \A k \in Keys :
            (fetch[c][k].pc \in Running /\ fetch'[c][k] # fetch[c][k]) =>
              \A j \in Keys \ {k} : fetch'[c][j] = fetch[c][j]]_vars

\* a crawl has returned although the calls for two of its three links failed
\* (one on 429 or rejected content, one on 404) beside one that succeeded
C8_Witness ==
  \E c \in Crawls :
    /\ crawl[c].pc = "returned" /\ Len(crawl[c].links) = 3
    /\ fetch[c][1].outcome = "failed" /\ fetch[c][1].last \in {200, 429}
    /\ fetch[c][2].outcome = "success"
    /\ fetch[c][3].outcome = "failed" /\ fetch[c][3].last = 404

\* C9: the step in which an exception reaches the handler of scrape_url
\* deletes the record of the crawl's tracker key, registers no archive, and
\* raises one failure and returns no response; the crawl does nothing after.
C9_AbortCleansUp ==
  [][\A c \in Crawls :
       /\ (crawl[c].pc # "aborted" /\ crawl'[c].pc = "aborted") =>
            /\ tracker_id(crawl[c].url) \notin DOMAIN progress_tracker'
            /\ results_tracker' = results_tracker
            /\ c \notin DOMAIN results_tracker'
            /\ crawl'[c].failures = 1
            /\ crawl'[c].response = <<>>
       /\ crawl[c].pc = "aborted" =>
            /\ crawl'[c] = crawl[c]
            /\ c \notin DOMAIN results_tracker']_vars

\* the raw fetch of a seed failed after the seed's call had been counted
C9_Witness ==
  \E c \in Crawls :
    /\ crawl[c].pc = "aborted" /\ crawl[c].failures = 1
    /\ fetch[c][0].pc = "done"
    /\ tracker_id(crawl[c].url) \notin DOMAIN progress_tracker
    /\ c \notin DOMAIN results_tracker

\* text i is unfit as C10 words it: fewer than 50 characters, or fewer than 3
\* line breaks, or a metadata prefix at the start of the line of every
\* character that is not whitespace
RECURSIVE LineStart(_, _)
LineStart(text, i) == IF i = 1 \/ text[i - 1] = NL THEN i ELSE LineStart(text, i - 1)

Unfit(text) ==
  \/ Len(text) < 50
  \/ Cardinality({i \in 1..Len(text) : text[i] = NL}) < 3
  \/ \A i \in 1..Len(text) :
       text[i] \notin Whitespace =>
         \E prefix \in MetadataPrefixes : MatchAt(text, prefix, LineStart(text, i))

UnfitTexts == {text \in AllTexts : Unfit(text)}

\* C10: a text that is unfit is never a success of the fetch that receives it
\* with status 200, and is never written by the archive build it is handed to.
C10_UnfitRejectedTwice ==
  /\ \A i \in 1..Len(probe.fetched) :
       probe.texts[i] \in UnfitTexts =>
         probe.fetched[i].outcome # "success" /\ probe.fetched[i].content = <<>>
  /\ \A z \in 1..Len(probe.zip) :
       /\ \A w \in 1..Len(probe.zip[z].written) :
            probe.zip[z].written[w].content \notin UnfitTexts
       /\ \A i \in 1..Len(probe.texts) :
            probe.texts[i] \in UnfitTexts =>
              \A w \in 1..Len(probe.zip[z].written) :
                probe.zip[z].written[w].url # ProbeUrls[i]

\* a text of metadata lines only, long enough and with enough line breaks, and
\* a fit text have been through both checks: only the fit one passed
C10_Witness ==
  /\ Len(probe.fetched) = Len(probe.texts)
  /\ Len(probe.zip) = 1
  /\ \E i, j \in 1..Len(probe.texts) :
       /\ probe.texts[i] \in UnfitTexts
       /\ Len(probe.texts[i]) >= 50 /\ Count(probe.texts[i], NL) >= 3
       /\ probe.fetched[i].outcome # "success"
       /\ probe.texts[j] \notin UnfitTexts
       /\ probe.fetched[j].outcome = "success"
       /\ Len(probe.zip[1].written) = 1
       /\ probe.zip[1].written[1].url = ProbeUrls[j]

\* C11: the check of the fetch and the check of the archive build agree: a
\* content the fetch returns as a success is accepted by the archive build,
\* and a text the archive build writes is a success of the fetch that receives
\* it.  (The code breaks the second half: the archive build counts the line
\* breaks, and tests the line starts, of the text before stripping it.)
C11_ChecksAgree ==
  /\ \A i \in 1..Len(probe.fetched) :
       probe.fetched[i].outcome = "success" => ~ArchiveRejects(probe.fetched[i].content)
  /\ \A z \in 1..Len(probe.zip) :
       \A i \in 1..Len(probe.fetched) :
         (\E w \in 1..Len(probe.zip[z].written) :
            probe.zip[z].written[w].url = ProbeUrls[i])
           => probe.fetched[i].outcome = "success"

\* C12: a snapshot the stream emits inside its loop has processed < total and
\* reports the provisional counter; once the stream has emitted its last
\* snapshot with processed = total > 0 and the crawl of its tracker key has
\* returned, that snapshot's "successful" is the number of entries the crawl's
\* archive build wrote.  (The code breaks the second half: the record is
\* deleted in the step that builds the archive, so no stream reads the
\* confirmed counter.)
C12_FinalSnapshotConfirmed ==
  /\ stream.kind = "progress" => stream.last.processed < stream.last.total
  /\ \A c \in Crawls :
       (/\ stream.pc = "ended"
        /\ stream.last.processed = stream.last.total /\ stream.last.total > 0
        /\ crawl[c].pc = "returned"
        /\ stream.tid = tracker_id(crawl[c].url))
         => stream.last.successful = crawl[c].final_counts.successful

HTTP_SCHEME ==
  <<"h", "t", "t", "p", ":", "/", "/">>
HTTPS_SCHEME ==
  <<"h", "t", "t", "p", "s", ":", "/", "/">>

\* an href that is an absolute http(s) link
AbsoluteHttp(href) == StartsWith(href, HTTP_SCHEME) \/ StartsWith(href, HTTPS_SCHEME)

\* the positions of a page's anchors that C13 counts
Countable(anchors) ==
  {a \in 1..Len(anchors) : AbsoluteHttp(anchors[a]) /\ ~should_skip_url(anchors[a])}

\* C13: after link discovery total is 1 plus the number of anchors that are
\* absolute http(s) links and match no skip pattern, and the URLs dispatched
\* are those anchors and no others.  (The code breaks this for an href such
\* as "http-faq.html": its test is that the href starts with "http".)
C13_TotalCountsValidLinks ==
  /\ probe.pc # "page" => probe.rec.total = 1 + Cardinality(Countable(probe.anchors))
  /\ \A d \in 1..Len(probe.dispatched) :
       AbsoluteHttp(probe.dispatched[d]) /\ ~should_skip_url(probe.dispatched[d])
  /\ probe.pc = "assembling" => Len(probe.dispatched) = Cardinality(Countable(probe.anchors))

(***************************************************************************)
(* Titles and filenames (lines 36-119)                                     *)
(***************************************************************************)
UpperLetters ==
  {"A", "B", "C", "D", "E", "F", "G", "H", "I", "J", "K", "L", "M",
   "N", "O", "P", "Q", "R", "S", "T", "U", "V", "W", "X", "Y", "Z"}

LowerLetters == {LowerChar(ch) : ch \in UpperLetters}

\* characters outside ASCII, written by their code points: e-acute, E-acute,
\* the ligature fi, the fullwidth solidus and a CJK ideograph
NonAscii == {"U+00E9", "U+00C9", "U+FB01", "U+FF0F", "U+4E2D"}

\* unicodedata.normalize('NFKD', ch).encode('ascii', 'ignore').decode('ascii')
\* for one character (lines 96-97): the compatibility decomposition with
\* everything outside ASCII dropped
AsciiOf(ch) ==
  CASE ch = "U+00E9" -> <<"e">>
    [] ch = "U+00C9" -> <<"E">>
    [] ch = "U+FB01" -> <<"f", "i">>
    [] ch = "U+FF0F" -> <<"/">>
    [] ch = "U+4E2D" -> <<>>
    [] OTHER -> <<ch>>

\* the concatenation of parts[lo], ..., parts[hi]
RECURSIVE Flatten(_, _, _)
Flatten(parts, lo, hi) ==
  IF lo > hi THEN <<>>
  ELSE IF lo = hi THEN parts[lo]
  ELSE LET mid == (lo + hi) \div 2
       IN  Flatten(parts, lo, mid) \o Flatten(parts, mid + 1, hi)

ToAscii(s) == Flatten([i \in 1..Len(s) |-> AsciiOf(s[i])], 1, Len(s))

\* the characters \w matches in an ASCII string
WordChars == UpperLetters \cup LowerLetters \cup Digits \cup {"_"}

Hyphen == "-"

\* a substitution that removes nothing
KeepAll(s) == s

\* the substitution of line 100: only word characters, whitespace and
\* hyphens are kept
KeepSafe(s) ==
  LET Kept(ch) == ch \in WordChars \cup Whitespace \cup {Hyphen}
  IN  SelectSeq(s, Kept)

\* the substitution of line 102: every maximal run of hyphens and
\* whitespace becomes one hyphen
Hyphenate(s) ==
  LET InRun(i) == i >= 1 /\ s[i] \in Whitespace \cup {Hyphen}
      Part(i) == IF ~InRun(i) THEN <<s[i]>>
                 ELSE IF InRun(i - 1) THEN <<>> ELSE <<Hyphen>>
  IN  Flatten([i \in 1..Len(s) |-> Part(i)], 1, Len(s))

\* s.rstrip('-')
RECURSIVE RStripHyphen(_)
RStripHyphen(s) ==
  IF s # <<>> /\ s[Len(s)] = Hyphen THEN RStripHyphen(SubSeq(s, 1, Len(s) - 1)) ELSE s

\* s.lstrip('-')
RECURSIVE LStripHyphen(_)
LStripHyphen(s) ==
  IF s # <<>> /\ Head(s) = Hyphen THEN LStripHyphen(Tail(s)) ELSE s

\* a title, or None
NoTitle == [some |-> FALSE, text |-> <<>>]
Title(t) == [some |-> TRUE, text |-> t]

\* the first index at or after i where s holds ch, or Len(s) + 1
RECURSIVE Find(_, _, _)
Find(s, ch, i) == IF i > Len(s) \/ s[i] = ch THEN i ELSE Find(s, ch, i + 1)

\* the substitution of lines 61 and 83 from index i on: a markdown link
\* "[text](target)" with non-empty text and target becomes "text"
RECURSIVE RemoveLinks(_, _)
RemoveLinks(s, i) ==
  IF i > Len(s) THEN <<>>
  ELSE LET j == Find(s, "]", i + 1)
           k == Find(s, ")", j + 2)
           isLink == /\ s[i] = "["
                     /\ j <= Len(s) /\ j > i + 1
                     /\ j + 1 <= Len(s) /\ s[j + 1] = "("
                     /\ k <= Len(s) /\ k > j + 2
       IN  IF isLink THEN SubSeq(s, i + 1, j - 1) \o RemoveLinks(s, k + 1)
           ELSE <<s[i]>> \o RemoveLinks(s, i + 1)

\* the backquote character, written by its code point
Backquote == "U+0060"

\* the substitution of lines 63 and 84: asterisks, underscores and backquotes
\* are removed
RemoveEmphasis(s) ==
  LET Kept(ch) == ch \notin {"*", "_", Backquote}
  IN  SelectSeq(s, Kept)

\* the heading text of a stripped line after its marker of n characters
\* (lines 59-63 and 81-84)
HeadingText(line, n) ==
  RemoveEmphasis(RemoveLinks(Strip(SubSeq(line, n + 1, Len(line))), 1))

H1_MARK == <<"#", " ">>
H2_MARK == <<"#", "#", " ">>
META_PUBLISHED == <<"P", "u", "b", "l", "i", "s", "h", "e", "d", ":">>
UNTITLED == <<"u", "n", "t", "i", "t", "l", "e", "d", "_">>
DOT_MD == <<".", "m", "d">>

\* the line prefixes the title search passes over (line 55)
TitleSkipPrefixes ==
  {META_URL_SOURCE, META_MARKDOWN_CONTENT, META_ORIGINAL_URL, META_PUBLISHED}

\* the number of lines the title search reads (lines 47, 76)
TITLE_SCAN_LINES == 30

\* a first loop that takes first-level headings only
RECURSIVE H1Line(_, _)
H1Line(lines, i) ==
  IF i > Len(lines) \/ i > TITLE_SCAN_LINES THEN NoTitle
  ELSE LET line == Strip(lines[i])
           h1 == HeadingText(line, 2)
       IN  IF line = <<>> THEN H1Line(lines, i + 1)
           ELSE IF \E p \in TitleSkipPrefixes : StartsWith(line, p)
                THEN H1Line(lines, i + 1)
           ELSE IF StartsWith(line, H1_MARK) /\ Len(line) > 2 /\ Len(h1) > 3
                THEN Title(h1)
           ELSE H1Line(lines, i + 1)

\* the first loop (lines 47-73) from line i on: an H1 heading of more than 3
\* characters after cleaning, or a "Title:" line
RECURSIVE H1OrTitleLine(_, _)
H1OrTitleLine(lines, i) ==
  IF i > Len(lines) \/ i > TITLE_SCAN_LINES THEN NoTitle
  ELSE LET line == Strip(lines[i])
           h1 == HeadingText(line, 2)
           named == Strip(SubSeq(line, 7, Len(line)))
       IN  IF line = <<>> THEN H1OrTitleLine(lines, i + 1)
           ELSE IF \E p \in TitleSkipPrefixes : StartsWith(line, p)
                THEN H1OrTitleLine(lines, i + 1)
           ELSE IF StartsWith(line, H1_MARK) /\ Len(line) > 2 /\ Len(h1) > 3
                THEN Title(h1)
           ELSE IF StartsWith(line, META_TITLE) /\ Len(line) > 7 /\ named # <<>>
                THEN Title(named)
           ELSE H1OrTitleLine(lines, i + 1)

\* the second loop (lines 76-85) from line i on: an H2 heading of more than 3
\* characters after cleaning
RECURSIVE H2Line(_, _)
H2Line(lines, i) ==
  IF i > Len(lines) \/ i > TITLE_SCAN_LINES THEN NoTitle
  ELSE LET line == Strip(lines[i])
           h2 == HeadingText(line, 3)
       IN  IF StartsWith(line, H2_MARK) /\ Len(line) > 3 /\ Len(h2) > 3
           THEN Title(h2)
           ELSE H2Line(lines, i + 1)

extract_title_from_content(content) ==
  IF content = <<>> THEN NoTitle
  ELSE LET lines == Split(content, NL)
           first == H1OrTitleLine(lines, 1)
       IN  IF first.some THEN first ELSE H2Line(lines, 1)

\* hash(url): Python salts str hashes per process, so the value is fixed when
\* the process starts and is not determined by the program
hash(url) == probe.hash[url]

\* str(n) for any integer n
Str(n) == IF n < 0 THEN <<"-">> \o IntToStr(0 - n) ELSE IntToStr(n)

Abs(n) == IF n < 0 THEN 0 - n ELSE n

\* the number of digits of the hash kept in a filename (line 113)
HASH_DIGITS == 8

\* max_length when the caller gives none (line 90)
DEFAULT_MAX_LENGTH == 100

\* s[:n]
Take(s, n) == SubSeq(s, 1, Min(n, Len(s)))

\* the reduced title, never cut
SafeCharsUncut(text, max_length) ==
  RStripHyphen(LStripHyphen(Hyphenate(KeepSafe(ToAscii(text)))))

\* lines 96-110: the title reduced to ASCII word characters and single hyphens,
\* cut to max_length characters
SafeChars(text, max_length) ==
  LET safe_chars == RStripHyphen(LStripHyphen(Hyphenate(KeepSafe(ToAscii(text)))))
  IN  IF Len(safe_chars) > max_length
      THEN RStripHyphen(Take(safe_chars, max_length))
      ELSE safe_chars

\* line 113
UrlHash(url) == Take(IntToStr(Abs(hash(url))), HASH_DIGITS)

\* a variant without the test of line 116: the reduced title is used even
\* when it is empty
create_titled_filename(title, url, max_length) ==
  IF ~title.some \/ title.text = <<>> THEN Str(hash(url)) \o DOT_MD
  ELSE SafeChars(title.text, max_length) \o <<"_">> \o UrlHash(url) \o DOT_MD

create_safe_filename(title, url, max_length) ==
  IF ~title.some \/ title.text = <<>> THEN Str(hash(url)) \o DOT_MD
  ELSE LET safe_chars == SafeChars(title.text, max_length)
       IN  IF safe_chars = <<>> THEN UNTITLED \o UrlHash(url) \o DOT_MD
           ELSE safe_chars \o <<"_">> \o UrlHash(url) \o DOT_MD

(***************************************************************************)
(* SpecFiles: the files and the archive of create_zip_file (lines 332-378) *)
(***************************************************************************)
\* the most pairs handed to one archive build
MaxBuildPairs == 2

\* the values hash() takes in the model: two that agree in the first
\* HASH_DIGITS digits of their absolute value, one of them negative, and one
\* shorter than HASH_DIGITS digits
HashValues == {1234567890, 0 - 1234567899, 42}

FileUrls == {U_A, U_B}

T_OK2 ==
  <<"#", " ", "D", "o", "c", " ", "A", NL, NL, "o", "t", "h", "e", "r", " ", "o", "t",
    "h", "e", "r", " ", "o", "t", "h", "e", "r", " ", "o", "t", "h", "e", "r", NL, "b",
    "o", "d", "y", " ", "b", "o", "d", "y", " ", "b", "o", "d", "y", " ", "b", "o",
    "d", "y", NL, "e", "n", "d", ".">>
T_PLAIN ==
  <<"p", "l", "a", "i", "n", " ", "t", "e", "x", "t", " ", "l", "i", "n", "e", " ",
    "o", "n", "e", NL, "l", "i", "n", "e", " ", "t", "w", "o", " ", "i", "s", " ", "h",
    "e", "r", "e", NL, "l", "i", "n", "e", " ", "t", "h", "r", "e", "e", NL, "l", "i",
    "n", "e", " ", "f", "o", "u", "r", " ", "a", "n", "d", " ", "m", "o", "r", "e",
    " ", "t", "e", "x", "t">>

\* contents handed to the build: empty, unfit, with the title "Doc A" (twice,
\* with different bodies), with the title "t", and without a title
FileTexts == {<<>>, T_SHORT, T_OK, T_OK2, T_LEADMETA, T_PLAIN}

\* line 362: the text written to the file of the pair p
FileText(p) == META_ORIGINAL_URL \o <<" ">> \o p.url \o <<NL, NL>> \o p.content

\* lines 356-357: the name of the file of the pair p
FileName(p) ==
  create_safe_filename(extract_title_from_content(p.content), p.url, DEFAULT_MAX_LENGTH)

NoFiles == [n \in {} |-> <<>>]

\* lines 360-362 for the written pairs from i on: the files of temp_dir by
\* name; opening an existing file for writing replaces its text
RECURSIVE WriteFiles(_, _, _)
WriteFiles(written, i, files) ==
  IF i > Len(written) THEN files
  ELSE LET name == FileName(written[i])
       IN  WriteFiles(written, i + 1,
                      [n \in DOMAIN files \cup {name} |->
                         IF n = name THEN FileText(written[i]) ELSE files[n]])

\* lines 366-373: the archive holds one entry per file of temp_dir, under the
\* file's name; when the call raises no archive is made
Archive(z) ==
  IF z.raised THEN [exists |-> FALSE, entries |-> NoFiles]
  ELSE [exists |-> TRUE, entries |-> WriteFiles(z.written, 1, NoFiles)]

InitFiles ==
  /\ InitShared
  /\ InitCrawls([c \in Crawls |-> NoUrl])
  /\ caller = NoCallers
  /\ stream = NoStream
  /\ \E h \in [FileUrls -> HashValues] :
     \E n \in 0..MaxBuildPairs :
     \E pairs \in [1..n -> [url : FileUrls, content : FileTexts]] :
     \E failed \in 0..1 :
       probe = [hash |-> h, pairs |-> pairs, pc |-> "start",
                before |-> [DefaultRecord EXCEPT !.failed = failed],
                rec |-> [DefaultRecord EXCEPT !.failed = failed],
                written |-> <<>>, archive |-> [exists |-> FALSE, entries |-> NoFiles]]

\* one call of create_zip_file
BuildArchive ==
  LET z == create_zip_file(probe.pairs, probe.rec)
  IN  /\ probe.pc = "start"
      /\ probe' = [probe EXCEPT !.pc = IF z.raised THEN "raised" ELSE "built",
                                !.rec = z.rec,
                                !.written = z.written,
                                !.archive = Archive(z)]
      /\ UNCHANGED <<clock, limiterVars, crawlVars, caller, stream>>

NextFiles == BuildArchive

SpecFiles == InitFiles /\ [][NextFiles]_vars

\* the pairs of the build that the loop of create_zip_file writes
Valid(p) == p.content # <<>> /\ ~ArchiveRejects(p.content)

ValidPairs == {i \in 1..Len(probe.pairs) : Valid(probe.pairs[i])}

\* C14: an archive build in which no pair has non-empty content that passes
\* validation ends with the error "No valid content to download" and leaves
\* no archive file behind.
C14_NoValidContentRaises ==
  (probe.pc # "start" /\ ValidPairs = {})
    => (probe.pc = "raised" /\ ~probe.archive.exists)

\* a build of one or more pairs, one of them non-empty and rejected, has raised
C14_Witness ==
  /\ probe.pc = "raised"
  /\ ValidPairs = {}
  /\ \E i \in 1..Len(probe.pairs) : probe.pairs[i].content # <<>>

\* C15: after every archive build that succeeds, the record's confirmed
\* counter (successful) equals the number of entries the archive contains,
\* whatever the list of pairs, including lists in which one URL occurs more
\* than once.
C15_ConfirmedEqualsEntries ==
  probe.pc = "built" => probe.rec.successful = Cardinality(DOMAIN probe.archive.entries)

\* the pairs of the build whose content is non-empty and fails re-validation
RejectedPairs ==
  {i \in 1..Len(probe.pairs) :
     probe.pairs[i].content # <<>> /\ ArchiveRejects(probe.pairs[i].content)}

\* C16: once the archive build has run, failed has grown by 1 for every pair
\* whose content is non-empty but fails re-validation, the confirmed counter
\* counts none of these pairs, and neither the files written nor the archive
\* hold an entry for them; pairs with empty content change no counter.
C16_RejectedCountedAsFailed ==
  probe.pc # "start" =>
    /\ probe.rec.failed = probe.before.failed + Cardinality(RejectedPairs)
    /\ probe.rec.successful = Cardinality(ValidPairs)
    /\ probe.rec = [probe.before EXCEPT !.failed = probe.rec.failed,
                                        !.successful = probe.rec.successful]
    /\ \A i \in 1..Len(probe.pairs) : ~Valid(probe.pairs[i]) =>
         /\ \A w \in 1..Len(probe.written) : probe.written[w] # probe.pairs[i]
         /\ \A n \in DOMAIN probe.archive.entries :
              probe.archive.entries[n] # FileText(probe.pairs[i])

\* an archive has been built from a list holding a rejected pair
C16_Witness ==
  /\ probe.pc = "built"
  /\ RejectedPairs # {}
  /\ probe.rec.failed = probe.before.failed + 1

\* C17: any two pairs written by one archive build whose contents yield the
\* same title get different filenames, so that no written entry replaces
\* another.
C17_SameTitleDistinctNames ==
  probe.pc = "built" =>
    \A i, j \in 1..Len(probe.written) :
      (i # j /\ extract_title_from_content(probe.written[i].content)
                  = extract_title_from_content(probe.written[j].content))
        => FileName(probe.written[i]) # FileName(probe.written[j])

(***************************************************************************)
(* SpecNames: calls of create_safe_filename (lines 90-119)                 *)
(***************************************************************************)
N_PLAIN ==
  <<"I", "n", "t", "r", "o", "d", "u", "c", "t", "i", "o", "n", " ", "t", "o", " ",
    "M", "a", "c", "h", "i", "n", "e", " ", "L", "e", "a", "r", "n", "i", "n", "g">>
N_SYMBOLS ==
  <<"!", "!", "!", "?", "?", "?", "#", "#", "#">>
N_ACCENTS ==
  <<"C", "a", "f", "U+00E9", ":", " ", "A", " ", "G", "u", "i", "d", "e", " ", "t",
    "o", " ", "U+00C9", "m", "i", "g", "r", "U+00E9", " ", "L", "i", "t", "e", "r",
    "a", "t", "u", "r", "e">>
N_RESERVED ==
  <<"a", "/", "b", "\\", "c", ":", "d", "*", "e", "?", "f", "\"", "g", "<", "h", ">",
    "i", "|", "j", ".", "k">>
N_WIDE ==
  <<"U+FB01", "l", "e", "U+FF0F", "U+4E2D">>
N_WIDE_ONLY ==
  <<"U+FF0F", "U+4E2D">>
N_HYPHENS ==
  <<" ", " ", "-", "-", "a", "b", " ", "c", "d", " ", "-", " ", "e", "f", "-", "-",
    " ", " ">>
N_UNDERSCORE ==
  <<"a", "_", "b">>
N_LONG ==
  <<"A", " ", "C", "o", "m", "p", "r", "e", "h", "e", "n", "s", "i", "v", "e", " ",
    "G", "u", "i", "d", "e", " ", "t", "o", " ", "U", "n", "d", "e", "r", "s", "t",
    "a", "n", "d", "i", "n", "g", " ", "a", "n", "d", " ", "I", "m", "p", "l", "e",
    "m", "e", "n", "t", "i", "n", "g", " ", "A", "d", "v", "a", "n", "c", "e", "d",
    " ", "M", "a", "c", "h", "i", "n", "e", " ", "L", "e", "a", "r", "n", "i", "n",
    "g", " ", "A", "l", "g", "o", "r", "i", "t", "h", "m", "s", " ", "f", "o", "r",
    " ", "N", "a", "t", "u", "r", "a", "l", " ", "L", "a", "n", "g", "u", "a", "g",
    "e", " ", "P", "r", "o", "c", "e", "s", "s", "i", "n", "g", " ", "A", "p", "p",
    "l", "i", "c", "a", "t", "i", "o", "n", "s", " ", "i", "n", " ", "P", "r", "o",
    "d", "u", "c", "t", "i", "o", "n", " ", "E", "n", "v", "i", "r", "o", "n", "m",
    "e", "n", "t", "s">>
N_HUNDRED ==
  <<"x", "x", "x", "x", "x", "x", "x", "x", "x", "x", "x", "x", "x", "x", "x", "x",
    "x", "x", "x", "x", "x", "x", "x", "x", "x", "x", "x", "x", "x", "x", "x", "x",
    "x", "x", "x", "x", "x", "x", "x", "x", "x", "x", "x", "x", "x", "x", "x", "x",
    "x", "x", "x", "x", "x", "x", "x", "x", "x", "x", "x", "x", "x", "x", "x", "x",
    "x", "x", "x", "x", "x", "x", "x", "x", "x", "x", "x", "x", "x", "x", "x", "x",
    "x", "x", "x", "x", "x", "x", "x", "x", "x", "x", "x", "x", "x", "x", "x", "x",
    "x", "x", "x", "x">>
N_EMPTY ==
  <<>>

\* the titles given to create_safe_filename: None, the empty string, sample
\* strings, and what extract_title_from_content returns for the contents of
\* FileTexts
SampleTitles ==
  {NoTitle}
    \cup {Title(t) : t \in {N_EMPTY, N_PLAIN, N_SYMBOLS, N_ACCENTS, N_RESERVED, N_WIDE,
                            N_WIDE_ONLY, N_HYPHENS, N_UNDERSCORE, N_LONG, N_HUNDRED}}
    \cup {extract_title_from_content(c) : c \in FileTexts}

\* the values of max_length: two short ones and the default
MaxLengths == {5, 6, DEFAULT_MAX_LENGTH}

InitNames ==
  /\ InitShared
  /\ InitCrawls([c \in Crawls |-> NoUrl])
  /\ caller = NoCallers
  /\ stream = NoStream
  /\ \E h \in [FileUrls -> HashValues] :
     \E title \in SampleTitles :
     \E url \in FileUrls :
     \E max_length \in MaxLengths :
       probe = [hash |-> h, title |-> title, url |-> url, max_length |-> max_length,
                pc |-> "start", filename |-> <<>>]

\* one call of create_safe_filename
NameFile ==
  /\ probe.pc = "start"
  /\ probe' = [probe EXCEPT !.pc = "named",
                            !.filename = create_safe_filename(probe.title, probe.url,
                                                              probe.max_length)]
  /\ UNCHANGED <<clock, limiterVars, crawlVars, caller, stream>>

NextNames == NameFile

SpecNames == InitNames /\ [][NextNames]_vars

\* the characters a titled name carries after the title part: "_", the hash
\* digits and ".md"
NameTailLen == 1 + HASH_DIGITS + Len(DOT_MD)

\* the call was given a title: neither None nor the empty string
HasTitle == probe.title.some /\ probe.title.text # <<>>

\* C18 (as stated): the filename create_safe_filename returns never has more
\* than max_length characters.
C18_NameWithinMaxLength ==
  probe.pc = "named" => Len(probe.filename) <= probe.max_length

\* C18 (amended): max_length bounds the title part of the name only. For a
\* title that is given, the name is "untitled_<suffix>.md" or has at most
\* max_length characters followed by "_", at most HASH_DIGITS digits and ".md".
C18_TitlePartWithinMaxLength ==
  (probe.pc = "named" /\ HasTitle) =>
    \/ probe.filename = UNTITLED \o UrlHash(probe.url) \o DOT_MD
    \/ /\ Len(probe.filename) <= probe.max_length + NameTailLen
       /\ EndsWith(probe.filename, <<"_">> \o UrlHash(probe.url) \o DOT_MD)

\* a title longer than max_length has been cut: the name has exactly
\* max_length + NameTailLen characters
C18_Witness ==
  /\ probe.pc = "named"
  /\ HasTitle
  /\ Len(probe.title.text) > probe.max_length
  /\ Len(probe.filename) = probe.max_length + NameTailLen

\* the characters a filename must not hold: / \ : * ? " < > |
ReservedChars == {"/", "\\", ":", "*", "?", "\"", "<", ">", "|"}

\* C19: every filename create_safe_filename returns, for any title (None,
\* empty and special characters only included) and any URL, ends in ".md"
\* and holds none of the characters / \ : * ? " < > |.
C19_SafeCharactersAndExtension ==
  probe.pc = "named" =>
    /\ EndsWith(probe.filename, DOT_MD)
    /\ \A i \in 1..Len(probe.filename) : probe.filename[i] \notin ReservedChars

\* a name has been made from a title that holds a reserved character, or a
\* character whose compatibility form is one
C19_Witness ==
  /\ probe.pc = "named"
  /\ \E i \in 1..Len(probe.title.text) :
       \E k \in 1..Len(AsciiOf(probe.title.text[i])) :
         AsciiOf(probe.title.text[i])[k] \in ReservedChars
  /\ Len(probe.filename) > Len(DOT_MD)

\* the title given to the call reduces to the empty string (line 116)
SanitisesToEmpty == HasTitle /\ SafeChars(probe.title.text, probe.max_length) = <<>>

\* C20 (as stated): when no usable title exists (no title was extracted, or
\* the title sanitises to the empty string), the filename is
\* "untitled_<suffix>.md", with the suffix that titled filenames carry.
C20_UntitledWhenNoTitle ==
  (probe.pc = "named" /\ (~HasTitle \/ SanitisesToEmpty))
    => probe.filename = UNTITLED \o UrlHash(probe.url) \o DOT_MD

\* C20 (amended): a title that sanitises to the empty string gives
\* "untitled_<suffix>.md", with the suffix "_<suffix>.md" that every other
\* titled filename ends in; when no title is given (None or the empty
\* string) the filename is str(hash(url)) followed by ".md", without
\* "untitled" and with the whole signed hash.
C20_FallbackNames ==
  probe.pc = "named" =>
    /\ SanitisesToEmpty => probe.filename = UNTITLED \o UrlHash(probe.url) \o DOT_MD
    /\ (HasTitle /\ ~SanitisesToEmpty)
         => EndsWith(probe.filename, <<"_">> \o UrlHash(probe.url) \o DOT_MD)
    /\ ~HasTitle => probe.filename = Str(hash(probe.url)) \o DOT_MD

\* a name has been made for a title that sanitises to the empty string
C20_Witness ==
  /\ probe.pc = "named"
  /\ SanitisesToEmpty
  /\ StartsWith(probe.filename, UNTITLED)

(***************************************************************************)
(* SpecTitles: calls of extract_title_from_content (lines 36-88)           *)
(***************************************************************************)
L_H1 ==
  <<"#", " ", "H", "e", "a", "d", " ", "l", "i", "n", "e">>
L_H1_LATER ==
  <<" ", " ", "#", " ", "O", "t", "h", "e", "r", " ", "h", "e", "a", "d", " ", " ">>
L_H2 ==
  <<"#", "#", " ", "S", "u", "b", " ", "h", "e", "a", "d">>
L_TITLE ==
  <<"T", "i", "t", "l", "e", ":", " ", "N", "a", "m", "e", "d">>
L_TITLE_TIGHT ==
  <<"T", "i", "t", "l", "e", ":", "x">>
L_URL_SOURCE ==
  <<"U", "R", "L", " ", "S", "o", "u", "r", "c", "e", ":", " ", "h", "t", "t", "p",
    ":", "/", "/", "e", "x", ".", "o", "r", "g", "/", "a">>
L_ORIGINAL_URL ==
  <<"#", " ", "O", "r", "i", "g", "i", "n", "a", "l", " ", "U", "R", "L", ":", " ",
    "h", "t", "t", "p", ":", "/", "/", "e", "x", ".", "o", "r", "g", "/", "a">>
L_PUBLISHED ==
  <<"P", "u", "b", "l", "i", "s", "h", "e", "d", ":", " ", "2", "0", "1", "7", "-",
    "0", "6", "-", "1", "2">>
L_CONTENT ==
  <<"M", "a", "r", "k", "d", "o", "w", "n", " ", "C", "o", "n", "t", "e", "n", "t", ":">>
L_PLAIN ==
  <<"p", "l", "a", "i", "n", " ", "t", "e", "x", "t">>
L_H1_SHORT ==
  <<"#", " ", "a", "b">>
L_H1_MARKUP ==
  <<"#", " ", "[", "G", "e", "t", "t", "i", "n", "g", " ", "*", "s", "t", "a", "r",
    "t", "e", "d", "*", "]", "(", "h", "t", "t", "p", ":", "/", "/", "e", "x", ".",
    "o", "r", "g", "/", "a", ")", " ", "U+0060", "n", "o", "w", "U+0060">>
L_H2_MARKUP ==
  <<"#", "#", " ", "_", "_", "[", "x", "]", "(", "y", ")", "_", "_">>

\* the lines the contents of the model are made of
SampleLines ==
  {<<>>, L_H1, L_H1_LATER, L_H2, L_TITLE, L_TITLE_TIGHT, L_URL_SOURCE, L_ORIGINAL_URL, L_PUBLISHED,
   L_CONTENT, L_PLAIN, L_H1_SHORT, L_H1_MARKUP, L_H2_MARKUP}

\* the most sample lines in one content
MaxTitleLines == 3

\* the numbers of empty lines put before the sample lines: none, and as many
\* as leave the first sample line inside and outside the lines the search reads
LeadingLines == {0, TITLE_SCAN_LINES - 1, TITLE_SCAN_LINES}

\* '\n'.join(lines)
Join(lines) ==
  Flatten([i \in 1..Len(lines) |-> IF i = 1 THEN lines[i] ELSE <<NL>> \o lines[i]],
          1, Len(lines))

InitTitles ==
  /\ InitShared
  /\ InitCrawls([c \in Crawls |-> NoUrl])
  /\ caller = NoCallers
  /\ stream = NoStream
  /\ \E pad \in LeadingLines :
     \E n \in 1..MaxTitleLines :
     \E lines \in [1..n -> SampleLines] :
       probe = [content |-> Join([i \in 1..pad |-> <<>>] \o lines),
                pc |-> "start", title |-> NoTitle]

\* one call of extract_title_from_content
ExtractTitle ==
  /\ probe.pc = "start"
  /\ probe' = [probe EXCEPT !.pc = "extracted",
                            !.title = extract_title_from_content(probe.content)]
  /\ UNCHANGED <<clock, limiterVars, crawlVars, caller, stream>>

NextTitles == ExtractTitle

SpecTitles == InitTitles /\ [][NextTitles]_vars

\* the lines of content the search reads, stripped
ScannedLines(content) ==
  LET lines == Split(content, NL)
  IN  [i \in 1..Min(Len(lines), TITLE_SCAN_LINES) |-> Strip(lines[i])]

\* the prefixes the claim calls metadata prefixes
ClaimedMetadataPrefixes == TitleSkipPrefixes \cup {META_TITLE}

\* a heading line with a marker of n characters whose text, once cleaned, has
\* more than 3 characters
WellFormedHeading(line, mark) ==
  StartsWith(line, mark) /\ Len(HeadingText(line, Len(mark))) > 3

\* a "Title:" line of more than 7 characters
NamedTitle(line) == StartsWith(line, META_TITLE) /\ Len(line) > 7

\* the least element of a non-empty set of numbers
Least(S) == CHOOSE i \in S : \A j \in S : i <= j

\* C21 (as stated): the title is the text of the first well-formed first-level
\* heading among the first 30 lines when there is one (even after a
\* second-level heading), otherwise that of the first well-formed second-level
\* heading, otherwise none; lines with a metadata prefix (URL Source:, Title:,
\* Markdown Content:, # Original URL:, Published:) are passed over and never
\* supply the title.
C21_HeadingsOnly ==
  probe.pc = "extracted" =>
    LET scanned == ScannedLines(probe.content)
        Meta(i) == \E p \in ClaimedMetadataPrefixes : StartsWith(scanned[i], p)
        H1s == {i \in DOMAIN scanned : ~Meta(i) /\ WellFormedHeading(scanned[i], H1_MARK)}
        H2s == {i \in DOMAIN scanned : ~Meta(i) /\ WellFormedHeading(scanned[i], H2_MARK)}
    IN  probe.title =
          IF H1s # {} THEN Title(HeadingText(scanned[Least(H1s)], 2))
          ELSE IF H2s # {} THEN Title(HeadingText(scanned[Least(H2s)], 3))
          ELSE NoTitle

\* C21 (amended): among the first 30 lines, lines starting with URL Source:,
\* Markdown Content:, # Original URL: or Published: are passed over; the title
\* comes from the first remaining line that is a well-formed first-level
\* heading or a "Title:" line of more than 7 characters, whichever comes first
\* (the heading text, or what follows "Title:", stripped); when there is none it
\* is the text of the first well-formed second-level heading; otherwise there
\* is no title.
C21_HeadingOrTitleLine ==
  probe.pc = "extracted" =>
    LET scanned == ScannedLines(probe.content)
        Meta(i) == \E p \in TitleSkipPrefixes : StartsWith(scanned[i], p)
        H1(i) == WellFormedHeading(scanned[i], H1_MARK)
        Firsts == {i \in DOMAIN scanned : ~Meta(i) /\ (H1(i) \/ NamedTitle(scanned[i]))}
        H2s == {i \in DOMAIN scanned : WellFormedHeading(scanned[i], H2_MARK)}
        first == scanned[Least(Firsts)]
    IN  probe.title =
          IF Firsts # {}
          THEN Title(IF StartsWith(first, H1_MARK) THEN HeadingText(first, 2)
                     ELSE Strip(SubSeq(first, Len(META_TITLE) + 1, Len(first))))
          ELSE IF H2s # {} THEN Title(HeadingText(scanned[Least(H2s)], 3))
          ELSE NoTitle

\* a title has been taken from a first-level heading that follows a
\* second-level heading
C21_Witness ==
  /\ probe.pc = "extracted"
  /\ probe.title.some
  /\ LET scanned == ScannedLines(probe.content)
     IN  \E i, j \in DOMAIN scanned :
           /\ i < j
           /\ WellFormedHeading(scanned[i], H2_MARK)
           /\ WellFormedHeading(scanned[j], H1_MARK)
           /\ probe.title = Title(HeadingText(scanned[j], 2))

\* the number (from 0) of the batch that holds link k
BatchOf(k) == (k - 1) \div batch_size

\* the call for link k of crawl c has been dispatched and has not ended
InFlight(c, k) == fetch[c][k].pc \notin {"none", "done", "raised"}

\* C22: the batches of one crawl are dispatched strictly in sequence: no call
\* for a link of a later batch exists before every call of the earlier batches
\* has returned, so that at most batch_size link fetches of one crawl are in
\* flight at any time.
C22_BatchesInSequence ==
  \A c \in Crawls :
    /\ \A j, k \in 1..MaxLinks :
         (BatchOf(j) < BatchOf(k) /\ fetch[c][k].pc # "none") => fetch[c][j].pc = "done"
    /\ Cardinality({k \in 1..MaxLinks : InFlight(c, k)}) <= batch_size

\* a call of the second batch is in flight after every call of the first
\* batch has returned
C22_Witness ==
  \E c \in Crawls : \E k \in 1..MaxLinks :
    /\ BatchOf(k) = 1
    /\ InFlight(c, k)
    /\ crawl[c].pc = "gather"
    /\ \A j \in 1..batch_size : fetch[c][j].pc = "done"

(***************************************************************************)
(* SpecCancel: a crawl and a request POST /cancel/{tracker_id}             *)
(* (lines 197-200)                                                         *)
(***************************************************************************)
\* a cancellation request for the tracker key tid that has not been handled
NewCancel(tid) == [pc |-> "idle", tid |-> tid, error |-> "none"]

\* one crawl runs; the cancellation request names its tracker key
InitCancel ==
  /\ InitShared
  /\ \E seed \in [Crawls -> Seeds \cup {NoUrl}] :
       /\ Requests(seed)
       /\ seed[1] # NoUrl
       /\ \A c \in Crawls : c > 1 => seed[c] = NoUrl
       /\ InitCrawls(seed)
       /\ probe = NewCancel(tracker_id(seed[1]))
  /\ caller = NoCallers
  /\ stream = NoStream

\* cancel_scrape: the name cancel_scraping of line 200 is bound nowhere in the
\* module, so evaluating the call raises NameError before anything else is
\* done; the tracker is not touched
CancelRequest ==
  /\ probe.pc = "idle"
  /\ probe' = [probe EXCEPT !.pc = "raised", !.error = "NameError"]
  /\ UNCHANGED <<clock, limiterVars, crawlVars, caller, stream>>

NextCancel == Next \/ CancelRequest

SpecCancel == InitCancel /\ [][NextCancel]_vars

\* C23: a cancellation request for a tracker key completes by deleting the
\* progress record of that key and doing nothing else: the crawl and its
\* calls are left as they are.
C23_CancelDeletesRecord ==
  [][(probe.pc = "idle" /\ probe'.pc # "idle")
       => /\ probe'.pc = "done"
          /\ progress_tracker' = Del(progress_tracker, probe.tid)
          /\ UNCHANGED <<clock, limiterVars, results_tracker, crawl, fetch>>]_vars

\* the record of crawl c's key has been deleted by the end or the abort of a
\* crawl with that key and is not in the tracker
RecordDeleted(c) ==
  /\ tracker_id(crawl[c].url) \notin DOMAIN progress_tracker
  /\ \E d \in Crawls : /\ crawl[d].pc \in {"returned", "aborted"}
                       /\ tracker_id(crawl[d].url) = tracker_id(crawl[c].url)

\* C24: a call in flight that reaches its terminal outcome after the progress
\* record of its crawl's key has been deleted (by a cancellation, or by the
\* end or the abort of a crawl with the same key) updates no record and
\* creates none: the tracker holds no record for the key after the step.
C24_NoRecordAfterDeletion ==
  [][\A c \in Crawls : \A k \in Keys :
       (/\ fetch[c][k].pc \in Running \ {"created"}
        /\ fetch'[c][k].pc = "done"
        /\ RecordDeleted(c))
         => tracker_id(crawl[c].url) \notin DOMAIN progress_tracker']_vars

\* crawl c is running: its request has been made and it has neither returned
\* nor been aborted
Crawling(c) == crawl[c].pc \notin {"unused", "returned", "aborted"}

\* C25: a progress record is changed only by the fetches and the archive
\* assembly of the crawl that created it: a step of one crawl (of its calls
\* or of scrape_url itself) leaves the record of every other running crawl
\* as it is, also when both crawls were started for the same seed URL.
C25_RecordOwnedByCrawl ==
  [][\A c, d \in Crawls :
       (/\ c # d
        /\ Crawling(c) /\ Crawling(d)
        /\ (fetch'[c] # fetch[c] \/ crawl'[c] # crawl[c]))
         => RecAfter(d) = RecOf(d)]_vars

(***************************************************************************)
(* C26: a caller that wakes evaluates the window again                     *)
(***************************************************************************)
\* the admission times of the window that are still inside it at time now
\* (line 172)
Trimmed(now) ==
  LET InWindow(t) == now - t < RATE_PERIOD
  IN  SelectSeq(last_request_times, InWindow)

\* C26: a caller of acquire_rate_limit that slept because the window was full
\* is never admitted just for having waited: the step it takes on waking trims
\* the window at the time of waking and counts it again; if the window then
\* holds RATE_LIMIT admissions the caller takes no admission and sleeps again,
\* one call deeper, until the oldest of them leaves the window; otherwise it
\* is admitted at the time of waking.
C26_WokenCallerEvaluatesAgain ==
  [][\A p \in Callers :
       (caller[p].pc = "sleeping" /\ caller'[p] # caller[p]) =>
         LET window == Trimmed(clock)
         IN  IF Len(window) >= RATE_LIMIT
             THEN /\ caller'[p].pc = "sleeping"
                  /\ caller'[p].depth = caller[p].depth + 1
                  /\ caller'[p].wake = window[1] + RATE_PERIOD
                  /\ caller'[p].wake > clock
                  /\ admitted' = admitted
                  /\ last_request_times' = window
             ELSE /\ caller'[p] = Idle
                  /\ admitted' = Append(admitted, clock)
                  /\ last_request_times' = Append(window, clock)]_vars

\* a caller woke, found the window full again because another caller had been
\* admitted in the meantime, and sleeps a second time
C26_Witness ==
  \E p \in Callers :
    /\ caller[p].pc = "sleeping"
    /\ caller[p].depth >= 1
    /\ caller[p].wake > clock
    /\ Len(Trimmed(clock)) >= RATE_LIMIT

(***************************************************************************)
(* C27: one admission of the rate limiter for each extraction request      *)
(***************************************************************************)
\* C27: the requests sent to the extraction service never outnumber the
\* admissions the rate limiter has granted, and a step of get_markdown_content
\* that sends a request, be it the first for its URL or a retry, sends exactly
\* one and takes exactly one new admission for it, granted at that moment.
C27_AdmissionBeforeEachRequest ==
  /\ [](requests <= Len(admitted))
  /\ [][\A c \in Crawls, k \in Keys :
          (fetch'[c][k] # fetch[c][k] /\ fetch'[c][k].pc = "requesting") =>
            /\ requests' = requests + 1
            /\ admitted' = Append(admitted, clock)
            /\ last_request_times' = Append(Trimmed(clock), clock)]_vars
  /\ [][requests' # requests =>
          \E c \in Crawls, k \in Keys :
            fetch'[c][k] # fetch[c][k] /\ fetch'[c][k].pc = "requesting"]_vars

\* a call is waiting for the answer to a retry, and every request so far had
\* its admission
C27_Witness ==
  \E c \in Crawls, k \in Keys :
    /\ fetch[c][k].pc = "requesting"
    /\ fetch[c][k].attempts >= 2
    /\ requests >= 2
    /\ requests = Len(admitted)

(***************************************************************************)
(* C28: the pause between batches                                          *)
(***************************************************************************)
\* the number of batches of a crawl that found n links (line 450)
NumBatches(n) == (n + batch_size - 1) \div batch_size

\* C28: a crawl sleeps RATE_PERIOD / 2 seconds after each batch that is
\* followed by another batch and at no other point of the batch loop: while
\* batch b (counted from 0) is gathered it has slept b times, it sleeps only
\* when links are left for a further batch, and when it returns it has slept
\* once less than it had batches, hence not after the last batch and not at
\* all with one batch or none.
C28_PauseBetweenBatchesOnly ==
  \A c \in Crawls :
    LET cr == crawl[c]
        batches == NumBatches(Len(cr.links))
    IN  /\ \A j \in 1..Len(cr.pauses) : cr.pauses[j] = RATE_PERIOD \div 2
        /\ cr.pc = "gather" => Len(cr.pauses) = cr.i \div batch_size
        /\ cr.pc = "pause" => /\ Len(cr.pauses) = cr.i \div batch_size + 1
                              /\ cr.i + batch_size < Len(cr.links)
        /\ cr.pc = "returned" =>
             Len(cr.pauses) = IF batches <= 1 THEN 0 ELSE batches - 1

\* a crawl has returned after two batches, having slept once, between them
C28_Witness ==
  \E c \in Crawls :
    /\ crawl[c].pc = "returned"
    /\ NumBatches(Len(crawl[c].links)) = 2
    /\ crawl[c].pauses = <<RATE_PERIOD \div 2>>
    /\ crawl[c].i = batch_size

(***************************************************************************)
(* SpecUrls: a crawl whose seed is drawn from URLs in and around the       *)
(* forms transform_arxiv_url rewrites                                      *)
(***************************************************************************)
UP_ARXIV ==
  <<"h", "t", "t", "p", "s", ":", "/", "/", "a", "r", "x", "i", "v", ".", "o", "r",
    "g", "/">>
UP_EXPORT ==
  <<"h", "t", "t", "p", ":", "/", "/", "e", "x", "p", "o", "r", "t", ".", "a", "r",
    "x", "i", "v", ".", "o", "r", "g", "/">>
UP_QUERY ==
  <<"h", "t", "t", "p", "s", ":", "/", "/", "e", "x", ".", "o", "r", "g", "/", "?",
    "u", "=", "a", "r", "x", "i", "v", ".", "o", "r", "g", "/">>
UP_UPPER ==
  <<"h", "t", "t", "p", "s", ":", "/", "/", "A", "R", "X", "I", "V", ".", "o", "r",
    "g", "/">>
UP_OTHER ==
  <<"h", "t", "t", "p", "s", ":", "/", "/", "e", "x", ".", "o", "r", "g", "/">>
UK_ABS ==
  <<"a", "b", "s", "/">>
UK_PDF ==
  <<"p", "d", "f", "/">>
UK_HTML ==
  <<"h", "t", "m", "l", "/">>
UK_PDF_UPPER ==
  <<"P", "D", "F", "/">>
UK_LIST ==
  <<"l", "i", "s", "t", "/">>
UI_SHORT ==
  <<"1", ".", "2">>
UI_LONG ==
  <<"2", "3", "0", "1", ".", "0", "0", "0", "0", "1">>
UI_WHOLE ==
  <<"1", "2">>
UI_HALF ==
  <<"1", ".", "x">>
UV_3 ==
  <<"v", "3">>
UV_BARE ==
  <<"v">>
US_PDF ==
  <<".", "p", "d", "f">>
US_PDF_UPPER ==
  <<".", "P", "D", "F">>
US_PATH ==
  <<"/", "x">>

UrlHosts == {UP_ARXIV, UP_EXPORT, UP_QUERY, UP_UPPER, UP_OTHER}
UrlKinds == {UK_ABS, UK_PDF, UK_HTML, UK_PDF_UPPER, UK_LIST}
UrlIds == {UI_SHORT, UI_LONG, UI_WHOLE, UI_HALF}
UrlVersions == {<<>>, UV_3, UV_BARE}
UrlSuffixes == {<<>>, US_PDF, US_PDF_UPPER, US_PATH}

SampleUrls ==
  {h \o k \o i \o v \o s :
     h \in UrlHosts, k \in UrlKinds, i \in UrlIds, v \in UrlVersions, s \in UrlSuffixes}

\* one crawl, of a sample URL or of one of the seeds of Spec
InitUrls ==
  /\ InitShared
  /\ \E url \in SampleUrls \cup Seeds :
       InitCrawls([c \in Crawls |-> IF c = 1 THEN url ELSE NoUrl])
  /\ caller = NoCallers
  /\ probe = NoProbe
  /\ stream = NoStream

SpecUrls == InitUrls /\ [][Next]_vars

\* one of the three patterns of lines 144-148 is found in url
IsArxivUrl(url) ==
  \/ ArxivSearch(url, ARXIV_ABS, <<>>).ok
  \/ ArxivSearch(url, ARXIV_PDF, DOT_PDF).ok
  \/ ArxivSearch(url, ARXIV_HTML, <<>>).ok

\* the URL call k of crawl c was made for: the seed, or link k of the page
Requested(c, k) == IF k = 0 THEN crawl[c].url ELSE crawl[c].links[k]

\* the call has passed lines 236-243 and has not returned
InRetryLoop(f) == f.pc \in {"requesting", "backoff", "rl_sleep"}

\* C29: for every URL a call of get_markdown_content is made for,
\* transform_arxiv_url applied to its own result returns that result, it
\* returns a URL in which none of its patterns is found as it is, and a URL it
\* changes becomes one that is_pdf_url accepts; the call requests the
\* transformed URL with PDF_TIMEOUT when is_pdf_url accepts it (so whenever
\* the URL was rewritten) and with DEFAULT_TIMEOUT otherwise, and the pair it
\* returns carries the URL it was called with, not the transformed one.
C29_ArxivNormalisation ==
  \A c \in Crawls, k \in Keys :
    LET f == fetch[c][k]
        target == transform_arxiv_url(f.url)
    IN  f.pc # "none" =>
          /\ transform_arxiv_url(target) = target
          /\ ~IsArxivUrl(f.url) => target = f.url
          /\ target # f.url => is_pdf_url(target)
          /\ InRetryLoop(f) =>
               /\ f.target = target
               /\ f.timeout = IF is_pdf_url(target) THEN PDF_TIMEOUT ELSE DEFAULT_TIMEOUT
               /\ target # f.url => f.timeout = PDF_TIMEOUT
          /\ f.url = Requested(c, k)
          /\ (k = 0 /\ f.pc = "done") => crawl[c].results[1].url = crawl[c].url

\* the extraction service is being asked, with PDF_TIMEOUT, for the PDF of a
\* paper whose address was given in another form, one that is_pdf_url rejects
C29_Witness ==
  \E c \in Crawls, k \in Keys :
    LET f == fetch[c][k]
    IN  /\ f.pc = "requesting"
        /\ f.target # f.url
        /\ ~is_pdf_url(f.url)
        /\ f.target = ARXIV_CANON \o UI_LONG \o UV_3 \o DOT_PDF
        /\ f.timeout = PDF_TIMEOUT

(***************************************************************************)
(* C30: a crawl whose archive build raises                                 *)
(***************************************************************************)
\* the calls of crawl c that have returned content the archive build rejects
\* (lines 347-353), and those whose content it would write
RejectedCalls(c) ==
  {k \in Keys : /\ fetch[c][k].pc = "done"
                /\ fetch[c][k].content # <<>>
                /\ ArchiveRejects(fetch[c][k].content)}
WrittenCalls(c) ==
  {k \in Keys : /\ fetch[c][k].pc = "done"
                /\ fetch[c][k].content # <<>>
                /\ ~ArchiveRejects(fetch[c][k].content)}

\* crawl c takes the step in which create_zip_file runs: the one that joins
\* its last batch, every call of which has returned, or the one that parses
\* a page without links and answers the request
BuildsArchive(c) ==
  \/ /\ crawl[c].pc = "gather"
     /\ \A k \in Batch(crawl[c].links, crawl[c].i) : fetch[c][k].pc = "done"
     /\ ~MoreBatches(crawl[c].links, crawl[c].i)
     /\ crawl'[c] # crawl[c]
  \/ /\ crawl[c].pc = "rawfetch"
     /\ crawl'[c].pc = "returned"

\* C30: when the crawl reaches the archive build with no content the build
\* would write, so that create_zip_file raises, the request still succeeds:
\* the crawl returns, no archive is registered under its job id, its progress
\* record is gone from the tracker, and the response carries the seed followed
\* by the links found, no confirmed success, the record's skipped count and
\* its failed count with the contents the build rejected added.
C30_ArchiveErrorDoesNotFailCrawl ==
  [][\A c \in Crawls :
       (BuildsArchive(c) /\ WrittenCalls(c) = {}) =>
         LET tid == tracker_id(crawl[c].url)
             rec == Get(progress_tracker, tid)
             response == crawl'[c].response
         IN  /\ crawl'[c].pc = "returned"
             /\ results_tracker' = results_tracker
             /\ c \notin DOMAIN results_tracker'
             /\ tid \notin DOMAIN progress_tracker'
             /\ response.links = <<crawl[c].url>> \o crawl'[c].links
             /\ crawl[c].pc = "gather" => crawl'[c].links = crawl[c].links
             /\ response.jobId = c
             /\ response.successful = 0
             /\ response.skipped = rec.skipped
             /\ response.failed = rec.failed + Cardinality(RejectedCalls(c))]_vars

\* a crawl that found a link has returned without an archive: its seed was
\* skipped and the call for the link failed, so the build had nothing to write
C30_Witness ==
  \E c \in Crawls :
    /\ crawl[c].pc = "returned"
    /\ c \notin DOMAIN results_tracker
    /\ tracker_id(crawl[c].url) \notin DOMAIN progress_tracker
    /\ Len(crawl[c].response.links) >= 2
    /\ WrittenCalls(c) = {}
    /\ crawl[c].response.successful = 0
    /\ crawl[c].response.skipped >= 1
    /\ crawl[c].response.failed >= 1

(***************************************************************************)
(* C31: the stored window                                                  *)
(***************************************************************************)
\* C31: at every moment last_request_times holds at most RATE_LIMIT
\* timestamps and they are in non-decreasing order, so that its first element
\* (the one line 176 reads) is the oldest admission it holds.
C31_WindowBoundedAndOrdered ==
  /\ Len(last_request_times) <= RATE_LIMIT
  /\ \A i, j \in 1..Len(last_request_times) :
       i <= j => last_request_times[i] <= last_request_times[j]
  /\ \A i \in 1..Len(last_request_times) :
       last_request_times[1] <= last_request_times[i]

\* the window is full of admissions of two different times, older ones have
\* been dropped from it, and a caller is waiting for its oldest one to expire
C31_Witness ==
  /\ Len(last_request_times) = RATE_LIMIT
  /\ last_request_times[1] < last_request_times[RATE_LIMIT]
  /\ Len(admitted) > RATE_LIMIT
  /\ \E p \in Callers :
       /\ caller[p].pc = "sleeping"
       /\ caller[p].wake = last_request_times[1] + RATE_PERIOD

(***************************************************************************)
(* SpecRLFair: a finite number of calls of acquire_rate_limit, time that   *)
(* goes on, and an event loop that resumes a coroutine whose sleep is over *)
(***************************************************************************)
\* the calls of acquire_rate_limit that are made in all
MaxCalls == 17

\* the calls made so far: those that have returned and those that sleep
CallsMade ==
  Len(admitted) + Cardinality({p \in Callers : caller[p].pc = "sleeping"})

\* a caller sleeps and its sleep is not over
SleepPending == \E p \in Callers : caller[p].pc = "sleeping" /\ caller[p].wake > clock

\* time passes: as long as a caller waits for it, and up to MaxTime while
\* calls are still to be made
TimePasses ==
  /\ SleepPending \/ (CallsMade < MaxCalls /\ clock + TickLen <= MaxTime)
  /\ clock' = clock + TickLen
  /\ UNCHANGED <<limiterVars, crawlVars, caller, probe, stream>>

NextRLFair ==
  \/ TimePasses
  \/ \E p \in Callers :
       \/ CallsMade < MaxCalls /\ RLCall(p)
       \/ RLWake(p)

SpecRLFair ==
  /\ InitRL
  /\ [][NextRLFair]_vars
  /\ WF_vars(TimePasses)
  /\ \A p \in Callers : WF_vars(RLWake(p))

\* C32: when time goes on and finitely many calls of acquire_rate_limit are
\* made, every caller that sleeps in it is admitted in the end, and a call
\* suspends, on entry or on waking, only when RATE_LIMIT admissions lie in the
\* last RATE_PERIOD seconds: with fewer it returns in the step it was made in.
C32_EveryCallReturns ==
  /\ \A p \in Callers : (caller[p].pc = "sleeping") ~> (caller[p].pc = "idle")
  /\ [][\A p \in Callers :
          (caller'[p].pc = "sleeping" /\ caller'[p] # caller[p])
            => Len(Trimmed(clock)) >= RATE_LIMIT]_vars
  /\ [][\A p \in Callers :
          (caller[p].pc = "idle" /\ admitted' # admitted /\ caller' = caller)
            => Len(Trimmed(clock)) < RATE_LIMIT]_vars

\* every call has been made and has returned, the last of them at the moment
\* the oldest admission of a full window expired
C32_Witness ==
  /\ Len(admitted) = MaxCalls
  /\ \A p \in Callers : caller[p].pc = "idle"
  /\ admitted[MaxCalls] = admitted[MaxCalls - RATE_LIMIT] + RATE_PERIOD
  /\ admitted[MaxCalls - 1] < admitted[MaxCalls]

(***************************************************************************)
(* C33: processed and total at the end of the batch loop                   *)
(***************************************************************************)
\* no other request was made for the seed of crawl c, so that no other crawl
\* uses its tracker key
OwnKey(c) ==
  \A d \in Crawls : d # c => tracker_id(crawl[d].url) # tracker_id(crawl[c].url)

\* every call of the last batch of crawl c has returned, and asyncio.gather
\* has not yet passed the results on
LastBatchDone(c) ==
  /\ crawl[c].pc = "gather"
  /\ ~MoreBatches(crawl[c].links, crawl[c].i)
  /\ \A k \in Batch(crawl[c].links, crawl[c].i) : fetch[c][k].pc = "done"

\* C33: for a crawl that has its tracker key to itself and does not abort,
\* once every call of its last batch has returned the record has processed
\* equal to total, both being the number of links found plus one for the
\* seed; the archive build changes neither, so the record the crawl reads
\* before it deletes it (line 472) still has them equal.
C33_ProcessedEqualsTotalAtEnd ==
  \A c \in Crawls :
    OwnKey(c) =>
      /\ LastBatchDone(c) =>
           /\ RecOf(c).processed = RecOf(c).total
           /\ RecOf(c).total = Len(crawl[c].links) + 1
      /\ crawl[c].pc = "returned" =>
           /\ crawl[c].final_counts.processed = crawl[c].final_counts.total
           /\ crawl[c].final_counts.total = Len(crawl[c].links) + 1

\* the calls of the second and last batch of a crawl have returned, and its
\* record counts the seed and every link as processed
C33_Witness ==
  \E c \in Crawls :
    /\ OwnKey(c)
    /\ LastBatchDone(c)
    /\ crawl[c].i = batch_size
    /\ Len(crawl[c].links) > batch_size
    /\ RecOf(c).processed = Len(crawl[c].links) + 1
    /\ tracker_id(crawl[c].url) \in DOMAIN progress_tracker

(***************************************************************************)
(* C34: the counts of the response                                         *)
(***************************************************************************)
\* C34: in the response of a crawl that has its tracker key to itself and
\* returns normally, successful + skipped + failed equals the number of links
\* returned, the seed included.
C34_CountsAddUpToLinks ==
  \A c \in Crawls :
    (OwnKey(c) /\ crawl[c].pc = "returned") =>
      LET response == crawl[c].response
      IN  response.successful + response.skipped + response.failed
            = Len(response.links)


\* a crawl has returned the seed and several links with an archive: some of
\* its calls succeeded and some failed
C34_Witness ==
  \E c \in Crawls :
    /\ OwnKey(c)
    /\ crawl[c].pc = "returned"
    /\ c \in DOMAIN results_tracker
    /\ Len(crawl[c].response.links) >= 3
    /\ crawl[c].response.successful >= 1
    /\ crawl[c].response.failed >= 1

(***************************************************************************)
(* C35: provisional and confirmed successes                                *)
(***************************************************************************)
\* C35: the archive build of a crawl rejects no content that a call of
\* get_markdown_content returned, so in the step in which the crawl returns
\* the record it reads has successful equal to potential_successful and the
\* failed count it had before the build.  (The code breaks the equality when
\* two crawls of one seed URL share the record.)
C35_ConfirmedEqualsProvisional ==
  [][\A c \in Crawls :
       (crawl[c].pc # "returned" /\ crawl'[c].pc = "returned") =>
         /\ \A j \in 1..Len(crawl'[c].results) :
              crawl'[c].results[j].content # <<>>
                => ~ArchiveRejects(crawl'[c].results[j].content)
         /\ crawl'[c].final_counts.successful
              = crawl'[c].final_counts.potential_successful
         /\ crawl'[c].final_counts.failed = RecOf(c).failed]_vars

(***************************************************************************)
(* SpecStreamFair: SpecStream with a generator that is resumed after each  *)
(* of its sleeps                                                           *)
(***************************************************************************)
SpecStreamFair == InitStream /\ [][NextStream]_vars /\ WF_vars(StreamPoll)

\* the crawl the stream follows has ended, by a response or by an error
CrawlEnded == \A c \in Crawls : crawl[c].pc \in {"unused", "returned", "aborted"}

\* C36: a turn of progress_generator that finds no record under its tracker
\* key (the crawl has not touched the tracker yet, or has deleted its record)
\* creates the default record, whose counters are all 0; in that case, as in
\* the case of a record whose total is still 0, the generator does not enter
\* its loop again: it emits the final snapshot, with successful = 0, and ends.
\* Hence once the crawl has ended the stream ends too.
C36_StreamEndsWithoutRecord ==
  /\ [][stream' # stream =>
          LET missing == stream.tid \notin DOMAIN progress_tracker
              rec == Get(progress_tracker, stream.tid)
          IN  /\ missing =>
                   /\ progress_tracker' = Put(progress_tracker, stream.tid, DefaultRecord)
                   /\ stream'.last = Snapshot(DefaultRecord, 0)
              /\ (missing \/ rec.total = 0) =>
                   /\ stream'.pc = "ended"
                   /\ stream'.kind = "final"
                   /\ stream'.last.successful = 0]_vars
  /\ [][stream.pc = "ended" => stream' = stream]_vars
  /\ CrawlEnded ~> (stream.pc = "ended")

\* the crawl has returned and deleted its record; the stream, which had sent
\* progress before, then found no record, created an empty one and ended
C36_Witness ==
  /\ \E c \in Crawls : crawl[c].pc = "returned" /\ stream.tid = tracker_id(crawl[c].url)
  /\ stream.pc = "ended"
  /\ stream.kind = "final"
  /\ stream.last = Snapshot(DefaultRecord, 0)
  /\ stream.tid \in DOMAIN progress_tracker
  /\ progress_tracker[stream.tid] = DefaultRecord

(***************************************************************************)
(* C37: the order of the pairs handed to the archive build                 *)
(***************************************************************************)
\* the URLs crawl c has results for once n of its links are gathered: the
\* seed, then the links in the order of the page
GatheredUrls(c, n) == <<crawl[c].url>> \o SubSeq(crawl[c].links, 1, n)

\* the URLs of the pairs crawl c has gathered
ResultUrls(c) == [j \in 1..Len(crawl[c].results) |-> crawl[c].results[j].url]

\* the number of links whose batch crawl c has joined
Joined(c) ==
  IF crawl[c].pc = "gather" THEN crawl[c].i
  ELSE IF crawl[c].pc = "pause" THEN crawl[c].i + batch_size
  ELSE Len(crawl[c].links)

\* C37: the result list of a crawl holds the seed's pair, then the pairs of
\* the links of the batches joined so far, in the order the links were found
\* on the page, each with the content its own call returned, in whatever
\* order the calls of a batch returned; so the list the archive build gets
\* from a crawl that returns is the seed's pair followed by one pair per link,
\* in page order.
C37_ResultsInDiscoveryOrder ==
  \A c \in Crawls :
    /\ crawl[c].pc \in {"gather", "pause", "returned"} =>
         /\ ResultUrls(c) = GatheredUrls(c, Joined(c))
         /\ \A k \in 1..Joined(c) :
              crawl[c].results[k + 1].content = fetch[c][k].content
         /\ crawl[c].results[1].content = fetch[c][0].content
    /\ (crawl[c].pc = "gather" /\ OwnKey(c)) =>
         RecOf(c).processed
           = 1 + Cardinality({k \in 1..Len(crawl[c].links) : fetch[c][k].pc = "done"})

\* the call for the second link of a batch has returned content before the
\* call for the first link, which is still at work: the record counts it, the
\* result list does not hold it yet
C37_Witness ==
  \E c \in Crawls :
    /\ crawl[c].pc = "gather"
    /\ crawl[c].i = 0
    /\ Len(crawl[c].links) >= 2
    /\ fetch[c][2].pc = "done"
    /\ fetch[c][2].outcome = "success"
    /\ fetch[c][1].pc \in {"requesting", "backoff"}
    /\ RecOf(c).processed = 2
    /\ ResultUrls(c) = <<crawl[c].url>>

====
